---- MODULE Spec2Model ----
(***************************************************************************)
(* A model of the kittenExport Blender add-on: the file-name sanitizer,     *)
(* the composite part.xml export operator, the thruster element builder    *)
(* and the legacy metadata writer / parser.                                 *)
(*                                                                          *)
(* Text is modelled as a sequence of one-character strings, so that the     *)
(* character-wise functions of the code (re.sub, lstrip, lower, slicing)    *)
(* are computed and not assumed.  Str turns such a sequence into a string.  *)
(***************************************************************************)
EXTENDS Integers, Sequences, FiniteSets, TLC

VARIABLES
    san_pc,       \* sanitizer harness: "idle" | "ready" | "done"
    san_in,       \* the name handed to sanitize_filename (None or text)
    san_out       \* what sanitize_filename returned

VARIABLES
    th_pc,        \* builder harness: "idle" | "ready" | "done" for a thruster,
                  \* "engine_ready" | "engine_done" for an engine
    th_data,      \* the dict handed to the builder
    th_places,    \* the decimal_places handed to the builder
    th_elem       \* the element it appended to its parent

VARIABLES
    scene,                \* the host scene and the operator's properties
    files,                \* the file system under the target directory: path -> content
    written,              \* the part.xml texts written so far, one per finished run
    faults,               \* how many external calls have failed so far
    run,                  \* which invocation of execute this is
    selected,             \* the names of the selected objects of the host
    active,               \* the name of the active object of the view layer, or None
    pc,                   \* where execute stands
    thrusters,            \* execute's locals, by their names in the code
    engines,
    meshes_dir,
    textures_dir,
    mesh_objects,
    used_names,
    mesh_export_info,
    export_idx,           \* how many entries the export loop has gone through
    exported_mesh_count,
    material_infos,
    mat_order,            \* the materials in the order the set "materials" yields them
    prev_selected,
    prev_active,
    attempted,            \* the paths this run has asked the host to write
    saved,                \* the paths this run has written
    root,                 \* the Assets element
    result,               \* what execute returned
    report                \* what execute reported

VARIABLES
    pm_pc,        \* metadata harness: "idle" | "bake" | "ready" | "parsed" | "done"
    pm_obj,       \* the thruster object and its custom property _thruster_meta
    pm_baked,     \* the dict the bake operator wrote into the property, if it did
    pm_out,       \* what the call parse_meta_string(_thruster_meta) came to
    pm_list       \* what the metadata list of the GLB export came to

VARIABLES
    mm_pc,        \* material maps harness: "idle" | "start" | "nodes" | "done"
    mm_mat,       \* the material handed to _extract_material_maps
    mm_idx,       \* the position of the loop over the nodes
    mm_result,    \* the dict "result"
    mm_failed,    \* an exception has been raised during the call
    mm_ret        \* what the call returned

host_vars  == <<scene, files, written, faults, run, selected, active>>
local_vars == <<thrusters, engines, meshes_dir, textures_dir, mesh_objects, used_names,
                mesh_export_info, export_idx, exported_mesh_count, material_infos,
                mat_order, prev_selected, prev_active, attempted, saved, root, result,
                report>>
ex_vars    == <<host_vars, pc, local_vars>>

san_vars == <<san_in, san_out, san_pc>>
th_vars  == <<th_data, th_places, th_elem, th_pc>>
pm_vars  == <<pm_pc, pm_obj, pm_baked, pm_out, pm_list>>

mm_vars  == <<mm_pc, mm_mat, mm_idx, mm_result, mm_failed, mm_ret>>

vars == <<san_vars, th_vars, ex_vars, pm_vars, mm_vars>>

(***************************************************************************)
(* Bounds of the model.                                                     *)
(***************************************************************************)
MaxNameLen == 3        \* every text over InputChars up to this length is a name
MaxMaskLen == 7        \* control masks have 0..MaxMaskLen entries
MaxMeshes == 3         \* mesh objects in a scene that varies the mesh names
MaxRecords == 2        \* thruster objects, and engine objects, in a scene
MaxFaults == 1         \* external calls that fail in one behaviour

(***************************************************************************)
(* Text helpers.                                                            *)
(***************************************************************************)
None == <<"None">>     \* Python's None: a value that is no text

UpperChars == <<"A","B","C","D","E","F","G","H","I","J","K","L","M",
                "N","O","P","Q","R","S","T","U","V","W","X","Y","Z">>
LowerChars == <<"a","b","c","d","e","f","g","h","i","j","k","l","m",
                "n","o","p","q","r","s","t","u","v","w","x","y","z">>
DigitChars == <<"0","1","2","3","4","5","6","7","8","9">>

Range(f) == {f[i] : i \in DOMAIN f}

RECURSIVE Str(_)
Str(t) == IF t = <<>> THEN "" ELSE Head(t) \o Str(Tail(t))

Repeat(c, n) == [i \in 1..n |-> c]

\* str.lower() of one character
LowerChar(c) ==
    IF c \in Range(UpperChars)
    THEN LowerChars[CHOOSE i \in DOMAIN UpperChars : UpperChars[i] = c]
    ELSE c

\* str.lower()
Lower(t) == [i \in DOMAIN t |-> LowerChar(t[i])]

\* str(n) for a natural number n
RECURSIVE IntToText(_)
IntToText(n) ==
    IF n < 10 THEN <<DigitChars[n + 1]>>
    ELSE IntToText(n \div 10) \o <<DigitChars[(n % 10) + 1]>>

\* str.lstrip(c): drop the longest prefix made of c only
LStrip(t, c) ==
    LET keep == {i \in DOMAIN t : t[i] # c}
    IN  IF keep = {} THEN <<>>
        ELSE SubSeq(t, CHOOSE i \in keep : \A j \in keep : i <= j, Len(t))

(***************************************************************************)
(* Python values that are not text carry a tag, so that None, a list and a  *)
(* string can be told apart.  A dict is a function on the keys it holds.    *)
(***************************************************************************)
PyNone == [t |-> "none"]
PyList(v) == [t |-> "list", v |-> v]
PyStr(v) == [t |-> "str", v |-> v]

\* a float is held as a whole number of thousandths
PyBool(b) == [t |-> "bool", v |-> b]
PyInt(n) == [t |-> "int", v |-> n]
PyFloat(milli) == [t |-> "float", v |-> milli]
PyText(chars) == [t |-> "text", v |-> chars]
PyDict(pairs) == [t |-> "dict", v |-> pairs]

\* the digits of n, at least `width` of them
RECURSIVE Digits(_, _)
Digits(n, width) ==
    IF n < 10 /\ width <= 1 THEN <<DigitChars[n + 1]>>
    ELSE Digits(n \div 10, width - 1) \o <<DigitChars[(n % 10) + 1]>>

\* trailing zeros of a fraction removed, one digit kept
RECURSIVE DropTrailingZeros(_)
DropTrailingZeros(t) ==
    IF Len(t) > 1 /\ t[Len(t)] = "0" THEN DropTrailingZeros(SubSeq(t, 1, Len(t) - 1))
    ELSE t

\* str(x) of a float x given in thousandths
UnsignedFloatToText(a) ==
    Digits(a \div 1000, 1) \o <<".">> \o DropTrailingZeros(Digits(a % 1000, 3))

FloatToText(milli) ==
    IF milli < 0 THEN <<"-">> \o UnsignedFloatToText(-milli) ELSE UnsignedFloatToText(milli)

\* str(v)
PyToText(v) ==
    CASE v.t = "none"  -> <<"N","o","n","e">>
      [] v.t = "bool"  -> IF v.v THEN <<"T","r","u","e">> ELSE <<"F","a","l","s","e">>
      [] v.t = "int"   -> (IF v.v < 0 THEN <<"-">> \o Digits(-v.v, 1) ELSE Digits(v.v, 1))
      [] v.t = "float" -> FloatToText(v.v)
      [] v.t = "text"  -> v.v

\* bool(x) of a list, a string or None
Truthy(x) ==
    \/ x.t = "list" /\ Len(x.v) > 0
    \/ x.t = "str" /\ x.v # ""

\* dict.get(key, default)
Get(d, key, default) == IF key \in DOMAIN d THEN d[key] ELSE default

\* sep.join(parts)
RECURSIVE Join(_, _)
Join(parts, sep) ==
    IF parts = <<>> THEN ""
    ELSE IF Len(parts) = 1 THEN parts[1]
    ELSE parts[1] \o sep \o Join(Tail(parts), sep)

(***************************************************************************)
(* An ElementTree element: a tag, the attributes in the order they were    *)
(* given, and the child elements in the order they were appended.           *)
(***************************************************************************)
Elem(tag, attrs, kids) == [tag |-> tag, attrs |-> attrs, kids |-> kids]

\* elem.get(name) for an attribute the element has
Attr(e, name) ==
    LET i == CHOOSE j \in DOMAIN e.attrs : e.attrs[j][1] = name
    IN  e.attrs[i][2]

Tags(kids) == [i \in DOMAIN kids |-> kids[i].tag]

(***************************************************************************)
(* Each part of the program is exercised by a specification of its own;    *)
(* the state of the other parts then rests at these values.                 *)
(***************************************************************************)
ExLocalsInit ==
    /\ thrusters = <<>>
    /\ engines = <<>>
    /\ meshes_dir = ""
    /\ textures_dir = PyNone
    /\ mesh_objects = <<>>
    /\ used_names = {}
    /\ mesh_export_info = <<>>
    /\ export_idx = 0
    /\ exported_mesh_count = 0
    /\ material_infos = <<>>
    /\ mat_order = <<>>
    /\ prev_selected = {}
    /\ prev_active = PyNone
    /\ attempted = {}
    /\ saved = {}
    /\ root = PyNone
    /\ result = "RUNNING"
    /\ report = PyNone

ExIdle ==
    /\ pc = "idle"
    /\ scene = PyNone
    /\ files = <<>>
    /\ written = <<>>
    /\ faults = 0
    /\ run = 0
    /\ selected = {}
    /\ active = PyNone
    /\ ExLocalsInit

ThIdle ==
    /\ th_pc = "idle"
    /\ th_data = [name |-> "idle"]
    /\ th_places = 0
    /\ th_elem = PyNone

SanIdle ==
    /\ san_pc = "idle"
    /\ san_in = None
    /\ san_out = None

MetaIdle ==
    /\ pm_pc = "idle"
    /\ pm_obj = PyNone
    /\ pm_baked = PyNone
    /\ pm_out = PyNone
    /\ pm_list = PyNone

MapsIdle ==
    /\ mm_pc = "idle"
    /\ mm_mat = PyNone
    /\ mm_idx = 0
    /\ mm_result = <<>>
    /\ mm_failed = FALSE
    /\ mm_ret = PyNone

(***************************************************************************)
(* utils.sanitize_filename                                                  *)
(***************************************************************************)
\* the character class [A-Za-z0-9._-] of the regular expression
SafeChars == Range(UpperChars) \cup Range(LowerChars) \cup Range(DigitChars)
                \cup {".", "_", "-"}

MaxFileNameLen == 128

Unnamed == <<"u","n","n","a","m","e","d">>

\* re.sub(r'[^A-Za-z0-9._-]', '_', name)
ReplaceUnsafe(name) ==
    [i \in DOMAIN name |-> IF name[i] \in SafeChars THEN name[i] ELSE "_"]

\* mutant: only one leading dot is removed
StripLeadingDots_OnlyOne(cleaned) ==
    IF cleaned # <<>> /\ Head(cleaned) = "." THEN Tail(cleaned) ELSE cleaned

\* cleaned.lstrip('.')
StripLeadingDots(cleaned) == LStrip(cleaned, ".")

\* mutant: the cut is taken one character short
TrimLength_OffByOne(cleaned) ==
    IF Len(cleaned) > MaxFileNameLen THEN SubSeq(cleaned, 1, MaxFileNameLen - 1)
    ELSE cleaned

\* cleaned[:128] when longer than 128
TrimLength(cleaned) ==
    IF Len(cleaned) > MaxFileNameLen THEN SubSeq(cleaned, 1, MaxFileNameLen)
    ELSE cleaned

sanitize_filename(name) ==
    IF name = None \/ name = <<>> THEN Unnamed
    ELSE LET replaced == ReplaceUnsafe(name)
             stripped == StripLeadingDots(replaced)
             cleaned  == IF stripped = <<>> THEN Unnamed ELSE stripped
         IN  TrimLength(cleaned)

(***************************************************************************)
(* thruster._thruster_dict_to_xml_element                                   *)
(***************************************************************************)
trans_labels == <<"TranslateForward", "TranslateBackward", "TranslateLeft",
                  "TranslateRight", "TranslateUp", "TranslateDown">>
rot_labels == <<"PitchUp", "PitchDown", "RollLeft", "RollRight", "YawLeft", "YawRight">>

\* for i, enabled in enumerate(mask): if enabled and i < len(labels): append
RECURSIVE EnabledLabelsFrom(_, _, _)
EnabledLabelsFrom(mask, labels, i) ==
    IF i > Len(mask) THEN <<>>
    ELSE (IF mask[i] /\ i <= Len(labels) THEN <<labels[i]>> ELSE <<>>)
            \o EnabledLabelsFrom(mask, labels, i + 1)

\* if mask: ... (None and the empty list add nothing)
EnabledLabels(mask, labels) ==
    IF Truthy(mask) THEN EnabledLabelsFrom(mask.v, labels, 1) ELSE <<>>

\* mutant: the rotation labels are collected before the translation labels
CsvParts_RotationFirst(thruster_data) ==
    EnabledLabels(Get(thruster_data, "control_map_rotation", PyList(<<>>)), rot_labels)
        \o EnabledLabels(Get(thruster_data, "control_map_translation", PyList(<<>>)),
                         trans_labels)

\* csv_parts after both loops
CsvParts(thruster_data) ==
    EnabledLabels(Get(thruster_data, "control_map_translation", PyList(<<>>)),
                  trans_labels)
        \o EnabledLabels(Get(thruster_data, "control_map_rotation", PyList(<<>>)),
                         rot_labels)

\* the ControlMap element, always added
ControlMapElem(thruster_data) ==
    LET csv_parts == CsvParts(thruster_data)
        csv_value == IF csv_parts # <<>> THEN Join(csv_parts, ",") ELSE ""
    IN  Elem("ControlMap", <<<<"CSV", csv_value>>>>, <<>>)

(***************************************************************************)
(* Coordinates.  A vector is a list of three floats, each held as a whole   *)
(* number of thousandths.  A computed float is given by its sign and its    *)
(* magnitude mag / scale, so that a negative value that rounds to zero      *)
(* keeps its sign as round() keeps it.  The model rounds to 0..3 places     *)
(* and its values never lie halfway between two neighbours, where round()   *)
(* follows the binary value of the float.                                   *)
(***************************************************************************)
Abs(x) == IF x < 0 THEN -x ELSE x

\* 10 ** n
RECURSIVE Pow10(_)
Pow10(n) == IF n = 0 THEN 1 ELSE 10 * Pow10(n - 1)

\* the nearest whole number of steps
NearestStep(mag, step) == (mag + step \div 2) \div step

\* round(float(value), decimal_places) of the value mag / scale, in thousandths
round_coordinate(mag, scale, decimal_places) ==
    NearestStep(mag, scale \div Pow10(decimal_places)) * (1000 \div Pow10(decimal_places))

\* str(_round_coordinate(v, decimal_places))
RoundedStr(neg, mag, scale, decimal_places) ==
    Str((IF neg THEN <<"-">> ELSE <<>>)
            \o UnsignedFloatToText(round_coordinate(mag, scale, decimal_places)))

\* the value of thruster_data.get(key, [0.0, 0.0, 0.0])
ZeroVector == PyList(<<0, 0, 0>>)

\* X=str(rounded[0]), Y=str(rounded[1]), Z=str(rounded[2]) of a list of floats
RoundedAxes(v, decimal_places) ==
    <<<<"X", RoundedStr(v[1] < 0, Abs(v[1]), 1000, decimal_places)>>,
      <<"Y", RoundedStr(v[2] < 0, Abs(v[2]), 1000, decimal_places)>>,
      <<"Z", RoundedStr(v[3] < 0, Abs(v[3]), 1000, decimal_places)>>>>

\* the Location element, added when final_loc is neither None nor empty
LocationOf(final_loc, decimal_places) ==
    IF Truthy(final_loc)
    THEN <<Elem("Location", RoundedAxes(final_loc.v, decimal_places), <<>>)>>
    ELSE <<>>

\* one component rounded on its own
RoundedValue(x, decimal_places) ==
    IF x < 0 THEN -round_coordinate(-x, 1000, decimal_places)
    ELSE round_coordinate(x, 1000, decimal_places)

\* mutant: each operand is rounded before the addition
FinalLoc_RoundFirst(loc, fx_offset, decimal_places) ==
    IF Truthy(loc) /\ Truthy(fx_offset)
    THEN PyList([i \in 1..3 |-> RoundedValue(loc.v[i], decimal_places)
                                    + RoundedValue(fx_offset.v[i], decimal_places)])
    ELSE loc

\* final_loc: the sum when both lists are non-empty, else loc
FinalLoc(loc, fx_offset, decimal_places) ==
    IF Truthy(loc) /\ Truthy(fx_offset)
    THEN PyList([i \in 1..3 |-> loc.v[i] + fx_offset.v[i]])
    ELSE loc

\* the Location child of a thruster
ThrusterLocation(thruster_data, decimal_places) ==
    LocationOf(FinalLoc(Get(thruster_data, "location", ZeroVector),
                        Get(thruster_data, "fx_location", ZeroVector),
                        decimal_places),
               decimal_places)

\* math.cos and math.sin in ten-thousandths, of the angles the model uses
\* (thousandths of a radian)
Cos(a) ==
    CASE a = 0 -> 10000
      [] a = 500 \/ a = -500 -> 8776
      [] a = 3000 -> -9900

Sin(a) ==
    CASE a = 0 -> 0
      [] a = 500 -> 4794
      [] a = -500 -> -4794
      [] a = 3000 -> 1411

\* the product of two floats given in ten-thousandths
Product(a, b) == [neg |-> (a < 0) # (b < 0), mag |-> Abs(a * b)]

\* mutant: the roll angle takes the place of the pitch angle
ExDir_Roll(rotation) ==
    IF Truthy(rotation)
    THEN <<Product(Cos(rotation.v[1]), Cos(rotation.v[3])),
           Product(Cos(rotation.v[1]), Sin(rotation.v[3])),
           Product(Sin(rotation.v[1]), 10000)>>
    ELSE <<Product(10000, 10000), Product(0, 10000), Product(0, 10000)>>

\* ex_dir: [cos_y * cos_z, cos_y * sin_z, sin_y], or [1.0, 0.0, 0.0]
ExDir(rotation) ==
    IF Truthy(rotation)
    THEN <<Product(Cos(rotation.v[2]), Cos(rotation.v[3])),
           Product(Cos(rotation.v[2]), Sin(rotation.v[3])),
           Product(Sin(rotation.v[2]), 10000)>>
    ELSE <<Product(10000, 10000), Product(0, 10000), Product(0, 10000)>>

\* the ExhaustDirection element of a thruster or an engine, always added
ExhaustDirectionElem(ex_dir, decimal_places) ==
    Elem("ExhaustDirection",
         <<<<"X", RoundedStr(ex_dir[1].neg, ex_dir[1].mag, 100000000, decimal_places)>>,
           <<"Y", RoundedStr(ex_dir[2].neg, ex_dir[2].mag, 100000000, decimal_places)>>,
           <<"Z", RoundedStr(ex_dir[3].neg, ex_dir[3].mag, 100000000, decimal_places)>>>>,
         <<>>)

\* an element with the one attribute name=str(value)
ScalarElem(tag, name, value) == Elem(tag, <<<<name, Str(PyToText(value))>>>>, <<>>)

\* the Thruster element appended to the parent
thruster_dict_to_xml_element(thruster_data, decimal_places) ==
    Elem("Thruster",
         <<<<"Id", Get(thruster_data, "name", "Unnamed")>>>>,
         ThrusterLocation(thruster_data, decimal_places) \o
         <<ExhaustDirectionElem(ExDir(Get(thruster_data, "rotation", ZeroVector)),
                                decimal_places),
           ControlMapElem(thruster_data),
           ScalarElem("Thrust", "N", Get(thruster_data, "thrust_n", PyFloat(40000))),
           ScalarElem("SpecificImpulse", "Seconds",
                      Get(thruster_data, "specific_impulse_seconds", PyFloat(220000))),
           ScalarElem("MinimumPulseTime", "Seconds",
                      Get(thruster_data, "minimum_pulse_time_seconds", PyFloat(8))),
           Elem("VolumetricExhaust",
                <<<<"Id", Get(thruster_data, "volumetric_exhaust_id", "ApolloRCS")>>>>,
                <<>>),
           Elem("SoundEvent",
                <<<<"Action", "On">>,
                  <<"SoundId", Get(thruster_data, "sound_event_on", "DefaultRcsThruster")>>>>,
                <<>>)>>)

(***************************************************************************)
(* engine._engine_dict_to_xml_element                                       *)
(***************************************************************************)
\* mutant: the thrust is written as it was given
ThrustNewtons_Unscaled(thrust_kn) == thrust_kn

\* thrust_kn * 1000.0 of a float or an int
ThrustNewtons(thrust_kn) ==
    IF thrust_kn.t = "int" THEN PyFloat(thrust_kn.v * 1000000)
    ELSE PyFloat(thrust_kn.v * 1000)

engine_dict_to_xml_element(engine_data, decimal_places) ==
    Elem("Engine",
         <<<<"Id", Get(engine_data, "name", "Unnamed")>>>>,
         LocationOf(Get(engine_data, "location", ZeroVector), decimal_places) \o
         <<ExhaustDirectionElem(ExDir(Get(engine_data, "rotation", ZeroVector)),
                                decimal_places),
           ScalarElem("Thrust", "N",
                      ThrustNewtons(Get(engine_data, "thrust_kn", PyFloat(650000)))),
           ScalarElem("SpecificImpulse", "Seconds",
                      Get(engine_data, "specific_impulse_seconds", PyFloat(452000))),
           ScalarElem("MinimumThrottle", "Value",
                      Get(engine_data, "minimum_throttle", PyFloat(50))),
           Elem("VolumetricExhaust",
                <<<<"Id", Get(engine_data, "volumetric_exhaust_id", "ApolloCSM")>>>>,
                <<>>),
           Elem("SoundEvent",
                <<<<"Action", "On">>,
                  <<"SoundId", Get(engine_data, "sound_event_action_on",
                                   "DefaultEngineSoundBehavior")>>>>,
                <<>>)>>)

\* the default of coordinate_decimal_places
DefaultDecimalPlaces == 3

(***************************************************************************)
(* The thruster dicts the builder is applied to.  A mask is a list of       *)
(* booleans of any length up to MaxMaskLen (the host property has 6         *)
(* entries, a baked record may hold fewer or more), None, or absent.        *)
(***************************************************************************)
MaskLists ==
    UNION { {m \in [1..n -> BOOLEAN] :
                \/ Cardinality({i \in 1..n : m[i]}) <= 2
                \/ \A i \in 1..n : m[i]} : n \in 0..MaxMaskLen }

MaskValues == {PyNone} \cup {PyList(m) : m \in MaskLists}

ThrusterInputs ==
    { [name |-> "RCS_1", control_map_translation |-> t, control_map_rotation |-> r] :
        t \in MaskValues, r \in MaskValues }
    \cup { [name |-> "RCS_1", control_map_rotation |-> r] : r \in MaskValues }
    \cup { [name |-> "RCS_1", control_map_translation |-> t] : t \in MaskValues }
    \cup { [name |-> "RCS_1"] }

\* the values of decimal_places the builders are called with
DecimalPlaces == {2, 3}

Vectors ==
    {<<1000, 2000, 3000>>, <<100, 0, 0>>, <<0, 0, 0>>, <<1004, -4, 4>>, <<4, 4, -1004>>}

\* a location or an offset: None, empty, or a vector
VectorValues == {PyNone, PyList(<<>>)} \cup {PyList(v) : v \in Vectors}

\* the angles Cos and Sin are given for
Angles == {0, 500, -500, 3000}

RotationValues ==
    {PyNone, PyList(<<>>)} \cup {PyList(<<x, y, z>>) : x \in Angles, y \in Angles, z \in Angles}

\* the dicts, and each of them with the key set to one of the values
WithKey(dicts, key, values) == dicts \cup {(key :> v) @@ d : d \in dicts, v \in values}

AllFalse == PyList(<<FALSE, FALSE, FALSE, FALSE, FALSE, FALSE>>)

LocatedThrusters ==
    WithKey(WithKey({[name |-> "RCS_1", rotation |-> PyList(<<0, 0, 0>>),
                      thrust_n |-> PyFloat(40000),
                      control_map_translation |-> AllFalse,
                      control_map_rotation |-> AllFalse]},
                    "location", VectorValues),
            "fx_location", VectorValues)

RotatedThrusters ==
    WithKey({[name |-> "RCS_1", location |-> PyList(<<1000, 2000, 3000>>)]},
            "rotation", RotationValues)

ThrustValues == {PyFloat(650000), PyFloat(500), PyFloat(1250), PyInt(650)}

EngineInputs ==
    WithKey(WithKey({[name |-> "Main", fx_location |-> PyList(<<4, 4, -1004>>)]},
                    "location", VectorValues),
            "thrust_kn", ThrustValues)
    \cup WithKey({[name |-> "Main"]}, "rotation", RotationValues)

ThInit ==
    /\ \/ /\ th_pc = "ready"
          /\ th_data \in ThrusterInputs
          /\ th_places = DefaultDecimalPlaces
       \/ /\ th_pc = "ready"
          /\ th_data \in LocatedThrusters \cup RotatedThrusters
          /\ th_places \in DecimalPlaces
       \/ /\ th_pc = "engine_ready"
          /\ th_data \in EngineInputs
          /\ th_places \in DecimalPlaces
    /\ th_elem = PyNone
    /\ SanIdle
    /\ ExIdle
    /\ MetaIdle
    /\ MapsIdle

\* one call of _thruster_dict_to_xml_element
BuildThruster ==
    /\ th_pc = "ready"
    /\ th_elem' = thruster_dict_to_xml_element(th_data, th_places)
    /\ th_pc' = "done"
    /\ UNCHANGED <<th_data, th_places, san_vars, ex_vars, pm_vars, mm_vars>>

\* one call of _engine_dict_to_xml_element
BuildEngine ==
    /\ th_pc = "engine_ready"
    /\ th_elem' = engine_dict_to_xml_element(th_data, th_places)
    /\ th_pc' = "engine_done"
    /\ UNCHANGED <<th_data, th_places, san_vars, ex_vars, pm_vars, mm_vars>>

ThNext == BuildThruster \/ BuildEngine

SpecThruster == ThInit /\ [][ThNext]_vars

(***************************************************************************)
(* Claims about the thruster element.                                       *)
(***************************************************************************)
C7_Labels ==
    <<"TranslateForward", "TranslateBackward", "TranslateLeft", "TranslateRight",
      "TranslateUp", "TranslateDown",
      "PitchUp", "PitchDown", "RollLeft", "RollRight", "YawLeft", "YawRight">>

\* entry i (from 1) of the mask stored under key is present and true
C7_MaskBit(data, key, i) ==
    /\ key \in DOMAIN data
    /\ data[key].t = "list"
    /\ i <= Len(data[key].v)
    /\ data[key].v[i]

\* the positions of C7_Labels whose mask entry is true
C7_Selected(data) ==
    {k \in 1..12 : IF k <= 6 THEN C7_MaskBit(data, "control_map_translation", k)
                   ELSE C7_MaskBit(data, "control_map_rotation", k - 6)}

RECURSIVE C7_LabelsOf(_)
C7_LabelsOf(S) ==
    IF S = {} THEN <<>>
    ELSE LET k == CHOOSE x \in S : \A y \in S : x <= y
         IN  <<C7_Labels[k]>> \o C7_LabelsOf(S \ {k})

\* C7: the Thruster element has exactly one ControlMap child, whose CSV is
\* the comma-joined labels of the true entries of the translation mask and
\* then of the rotation mask, in index order; entries at index 6 or above
\* add nothing, missing entries count as false, and CSV is "" when no entry
\* is true.
C7_ControlMapCsv ==
    th_pc = "done" =>
        LET at == {i \in DOMAIN th_elem.kids : th_elem.kids[i].tag = "ControlMap"}
            sel == C7_Selected(th_data)
        IN  /\ Cardinality(at) = 1
            /\ \A i \in at :
                  /\ Attr(th_elem.kids[i], "CSV") = Join(C7_LabelsOf(sel), ",")
                  /\ sel = {} => Attr(th_elem.kids[i], "CSV") = ""
                  /\ ( /\ th_data = [name |-> "RCS_1",
                                     control_map_translation |->
                                        PyList(<<TRUE, FALSE, FALSE, FALSE, FALSE, FALSE>>),
                                     control_map_rotation |->
                                        PyList(<<FALSE, FALSE, TRUE, FALSE, FALSE, FALSE>>)]
                        => Attr(th_elem.kids[i], "CSV") = "TranslateForward,RollLeft" )

\* a translation mask with a true entry at index 6 and a rotation mask with
\* missing entries have been serialized
C7_Witness ==
    /\ th_pc = "done"
    /\ "control_map_translation" \in DOMAIN th_data
    /\ "control_map_rotation" \in DOMAIN th_data
    /\ th_data.control_map_translation =
            PyList(<<TRUE, FALSE, FALSE, FALSE, FALSE, FALSE, TRUE>>)
    /\ th_data.control_map_rotation = PyList(<<FALSE, FALSE, TRUE>>)
    /\ \E i \in DOMAIN th_elem.kids :
            /\ th_elem.kids[i].tag = "ControlMap"
            /\ Attr(th_elem.kids[i], "CSV") = "TranslateForward,RollLeft"

(***************************************************************************)
(* The names the sanitizer is applied to: None, every text over InputChars  *)
(* up to MaxNameLen, the examples of the documentation, and long names      *)
(* around the 128 character limit (a short head followed by a run of one    *)
(* character).                                                              *)
(***************************************************************************)
InputChars == {"H", "h", "1", ".", "_", "/", " "}

TextsUpTo(chars, n) == UNION {[1..k -> chars] : k \in 0..n}

ExampleNames ==
    { <<".",".","h","i","d","d","e","n">>,
      <<"a","/","b","\\","c">>,
      Repeat("x", 200) }

LongNames ==
    { head \o Repeat(c, n) :
        head \in {<<>>, <<".">>, <<".", ".">>, <<"/">>},
        c \in {"x", ".", "/"},
        n \in {MaxFileNameLen - 1, MaxFileNameLen, MaxFileNameLen + 1} }

SanitizerInputs ==
    {None} \cup TextsUpTo(InputChars, MaxNameLen) \cup ExampleNames \cup LongNames

SanInit ==
    /\ san_pc = "ready"
    /\ san_in \in SanitizerInputs
    /\ san_out = None
    /\ ThIdle
    /\ ExIdle
    /\ MetaIdle
    /\ MapsIdle

\* one call of sanitize_filename
Sanitize ==
    /\ san_pc = "ready"
    /\ san_out' = sanitize_filename(san_in)
    /\ san_pc' = "done"
    /\ UNCHANGED <<san_in, th_vars, ex_vars, pm_vars, mm_vars>>

SanNext == Sanitize

SpecSanitize == SanInit /\ [][SanNext]_vars

(***************************************************************************)
(* Claims about the sanitizer.                                              *)
(***************************************************************************)

\* C3: for every input name (None, empty, only dots, longer than 128
\* characters included) the result of sanitize_filename is non-empty, holds
\* only characters of [A-Za-z0-9._-], does not start with '.', and is at
\* most 128 characters long.
C3_SanitizedNameIsSafe ==
    san_pc = "done" =>
        /\ san_out # None
        /\ Len(san_out) >= 1
        /\ Len(san_out) <= 128
        /\ \A i \in 1..Len(san_out) : san_out[i] \in SafeChars
        /\ san_out[1] # "."

\* a name of more than 128 dots has been sanitized
C3_Witness ==
    /\ san_pc = "done"
    /\ san_in # None
    /\ Len(san_in) > 128
    /\ \A i \in 1..Len(san_in) : san_in[i] = "."

\* The reference pipeline of the documentation, stated without the code's
\* intermediate values: k leading dots are dropped, the rest is mapped
\* character by character, and the first 128 characters are kept.
LeadingDots(name) ==
    CHOOSE k \in 0..Len(name) :
        /\ \A i \in 1..k : name[i] = "."
        /\ k < Len(name) => name[k + 1] # "."

ReferenceSanitize(name) ==
    IF name = None \/ Len(name) = 0 THEN Unnamed
    ELSE LET k    == LeadingDots(name)
             full == IF k = Len(name) THEN Unnamed
                     ELSE [i \in 1..(Len(name) - k) |->
                              IF name[i + k] \in SafeChars THEN name[i + k] ELSE "_"]
             n    == IF Len(full) < 128 THEN Len(full) ELSE 128
         IN  [i \in 1..n |-> full[i]]

\* C4: sanitize_filename equals the reference pipeline on every input, and
\* gives the documented results: "" -> "unnamed", "..hidden" -> "hidden",
\* "a/b\c" -> "a_b_c", 200 times 'x' -> 128 times 'x'.
C4_SanitizeEqualsReference ==
    san_pc = "done" =>
        /\ san_out = ReferenceSanitize(san_in)
        /\ san_in \in {None, <<>>} => Str(san_out) = "unnamed"
        /\ san_in = <<".",".","h","i","d","d","e","n">> => Str(san_out) = "hidden"
        /\ san_in = <<"a","/","b","\\","c">> => Str(san_out) = "a_b_c"
        /\ san_in = Repeat("x", 200) => san_out = Repeat("x", 128)

\* the 200 character name has been cut to 128 characters
C4_Witness ==
    /\ san_pc = "done"
    /\ san_in = Repeat("x", 200)
    /\ Len(san_out) = 128

(***************************************************************************)
(* The host scene.  An object has a name (unique in the scene), a type,    *)
(* the custom properties _is_thruster, _is_engine and _no_export (TRUE     *)
(* when set), the thruster_props and engine_props groups that the add-on   *)
(* registers on every object, and its material slots.  A slot holds the    *)
(* key of a material or NoMaterial.                                        *)
(***************************************************************************)
NoMaterial == "none"

\* The float properties of the model hold values that the host, which
\* keeps them in single precision, returns unchanged.
ThrusterProps(exportable, tmask, rmask) ==
    [exportable |-> exportable,
     fx_location |-> <<100, 0, 0>>,
     thrust_n |-> PyFloat(100000),
     specific_impulse_seconds |-> PyFloat(280000),
     minimum_pulse_time_seconds |-> PyFloat(500),
     volumetric_exhaust_id |-> "ApolloRCS",
     sound_event_on |-> "DefaultRcsThruster",
     control_map_translation |-> tmask,
     control_map_rotation |-> rmask]

EngineProps(exportable) ==
    [exportable |-> exportable,
     thrust_kn |-> PyFloat(850000),
     specific_impulse_seconds |-> PyFloat(350000),
     minimum_throttle |-> PyFloat(500),
     volumetric_exhaust_id |-> "ApolloCSM",
     sound_event_action_on |-> "DefaultEngineSoundBehavior"]

NoMask == <<FALSE, FALSE, FALSE, FALSE, FALSE, FALSE>>

Object(name, type, is_thruster, is_engine, tp, ep, slots) ==
    [name |-> name, type |-> type, is_thruster |-> is_thruster,
     is_engine |-> is_engine, no_export |-> FALSE,
     location |-> <<1000, 2000, 3000>>, rotation_euler |-> <<0, 0, 0>>,
     thruster_props |-> tp, engine_props |-> ep, material_slots |-> slots]

MeshObject(name, slots) ==
    Object(name, "MESH", FALSE, FALSE,
           ThrusterProps(TRUE, NoMask, NoMask), EngineProps(TRUE), slots)

\* the materials of the host file: a name and the roles its node graph yields
Materials ==
    [mA |-> [name |-> <<"S","t","e","e","l">>, maps |-> {"diffuse", "normal"}],
     mB |-> [name |-> <<"G","l","a","s","s">>, maps |-> {}],
     mC |-> [name |-> <<"P","a","i","n","t">>, maps |-> {"roughmetaao"}],
     mD |-> [name |-> <<>>, maps |-> {"diffuse"}],
     mE |-> [name |-> <<"G","l"," ","s","s">>, maps |-> {"normal"}],
     mF |-> [name |-> <<"G","l","_","s","s">>, maps |-> {"diffuse", "normal"}]]

\* str.startswith(prefix)
StartsWith(t, prefix) ==
    /\ Len(t) >= Len(prefix)
    /\ SubSeq(t, 1, Len(prefix)) = prefix

ThrusterPrefix == <<"T","h","r","u","s","t","e","r">>
EnginePrefix == <<"E","n","g","i","n","e">>

\* the loop "Collect thrusters"
ThrusterCollected(obj) ==
    /\ ~(~obj.is_thruster /\ ~StartsWith(obj.name, ThrusterPrefix))
    /\ obj.thruster_props.exportable

ThrusterEntry(obj) ==
    [name |-> Str(obj.name),
     location |-> PyList(obj.location),
     rotation |-> PyList(obj.rotation_euler),
     fx_location |-> PyList(obj.thruster_props.fx_location),
     thrust_n |-> obj.thruster_props.thrust_n,
     specific_impulse_seconds |-> obj.thruster_props.specific_impulse_seconds,
     minimum_pulse_time_seconds |-> obj.thruster_props.minimum_pulse_time_seconds,
     volumetric_exhaust_id |-> obj.thruster_props.volumetric_exhaust_id,
     sound_event_on |-> obj.thruster_props.sound_event_on,
     control_map_translation |-> PyList(obj.thruster_props.control_map_translation),
     control_map_rotation |-> PyList(obj.thruster_props.control_map_rotation),
     exportable |-> obj.thruster_props.exportable]

CollectThrusters(objects) ==
    LET kept == SelectSeq(objects, ThrusterCollected)
    IN  [i \in DOMAIN kept |-> ThrusterEntry(kept[i])]

\* the loop "Collect engines"
EngineCollected(obj) ==
    /\ ~(~obj.is_engine /\ ~StartsWith(obj.name, EnginePrefix))
    /\ obj.engine_props.exportable

EngineEntry(obj) ==
    [name |-> Str(obj.name),
     location |-> PyList(obj.location),
     rotation |-> PyList(obj.rotation_euler),
     thrust_kn |-> obj.engine_props.thrust_kn,
     specific_impulse_seconds |-> obj.engine_props.specific_impulse_seconds,
     minimum_throttle |-> obj.engine_props.minimum_throttle,
     volumetric_exhaust_id |-> obj.engine_props.volumetric_exhaust_id,
     sound_event_action_on |-> obj.engine_props.sound_event_action_on,
     exportable |-> obj.engine_props.exportable]

CollectEngines(objects) ==
    LET kept == SelectSeq(objects, EngineCollected)
    IN  [i \in DOMAIN kept |-> EngineEntry(kept[i])]

\* the loop "Collect mesh objects"
MeshCollected(obj) ==
    /\ obj.type = "MESH"
    /\ ~(obj.no_export \/ obj.is_thruster \/ obj.is_engine)

CollectMeshes(objects) == SelectSeq(objects, MeshCollected)

(***************************************************************************)
(* The loop "Unique filenames for meshes".                                  *)
(***************************************************************************)
MeshFallbackName == <<"m","e","s","h">>

\* sanitize_filename(obj.name) or 'mesh'
SafeName(obj) ==
    LET s == sanitize_filename(obj.name)
    IN  IF s = <<>> THEN MeshFallbackName ELSE s

\* f"{safe_name}_{idx}"
Suffixed(safe_name, idx) == safe_name \o <<"_">> \o IntToText(idx)

\* while candidate.lower() in used_names: candidate = ...; idx += 1
RECURSIVE UniqueCandidate(_, _, _, _)
UniqueCandidate(safe_name, used, candidate, idx) ==
    IF Lower(candidate) \in used
    THEN UniqueCandidate(safe_name, used, Suffixed(safe_name, idx), idx + 1)
    ELSE candidate

\* mutant: the name is recorded as written, not lowercased
UsedKey_CaseKept(candidate) == candidate

\* what used_names.add(...) records for a candidate
UsedKey(candidate) == Lower(candidate)

\* os.path.join(directory, name), directory "" being the target directory
PathJoin(directory, name) == IF directory = "" THEN name ELSE directory \o "/" \o name

\* the tuple appended to mesh_export_info
MeshInfo(obj, candidate, dir) ==
    [obj |-> obj,
     candidate |-> candidate,
     glb_path |-> PathJoin(dir, Str(candidate) \o ".glb"),
     mesh_file_name |-> Str(candidate) \o ".glb",
     mesh_id |-> Str(candidate) \o "MeshFile"]


(***************************************************************************)
(* The loop over the materials of the mesh objects.                         *)
(***************************************************************************)
\* the set "materials": every material in a slot of a mesh object
MaterialsUsed(objs) ==
    UNION {Range(objs[i].material_slots) : i \in DOMAIN objs} \ {NoMaterial}

\* "for mat in materials" visits a set of host objects: the order is the
\* order of their hashes, which are addresses, so any order can come out
IterationOrders(S) ==
    {o \in [1..Cardinality(S) -> S] : \A a, b \in DOMAIN o : a # b => o[a] # o[b]}

\* f"{sanitize_filename(mat.name)}TextureFile" if mat.name else 'MaterialTextureFile'
MaterialId(mat) ==
    IF Materials[mat].name # <<>>
    THEN Str(sanitize_filename(Materials[mat].name)) \o "TextureFile"
    ELSE "MaterialTextureFile"

\* the tuple appended to material_infos
MaterialInfo(mat) ==
    [mat |-> mat, maps |-> Materials[mat].maps, material_id |-> MaterialId(mat)]

MapRoles == {"diffuse", "normal", "roughmetaao"}

\* 'Diffuse' if key == 'diffuse' else ('Normal' if key == 'normal' else 'RoughMetaAo')
TextureSuffix(role) ==
    IF role = "diffuse" THEN "Diffuse" ELSE IF role = "normal" THEN "Normal" ELSE "RoughMetaAo"

\* os.path.join(textures_dir, file_name)
TexturePath(mat, role) ==
    PathJoin("Textures",
             (IF Materials[mat].name # <<>>
              THEN Str(sanitize_filename(Materials[mat].name)) ELSE "material")
                 \o "_" \o TextureSuffix(role) \o ".png")

\* mutant: the destination is written whether or not it exists
TexturesToSave_Overwrite(mat, tdir, fs) ==
    IF ~Truthy(tdir) THEN {}
    ELSE Materials[mat].maps

\* the maps of a material whose file the loop sets out to write: none
\* without textures_dir, and none whose destination exists
TexturesToSave(mat, tdir, fs) ==
    IF ~Truthy(tdir) THEN {}
    ELSE {role \in Materials[mat].maps : TexturePath(mat, role) \notin DOMAIN fs}

\* the file system once the images of these maps are saved
SaveTextures(mat, roles, fs) ==
    [p \in {TexturePath(mat, role) : role \in roles} |-> <<"png", mat>>] @@ fs

(***************************************************************************)
(* "Construct new XML structure"                                            *)
(***************************************************************************)
\* the MeshFile entries
MeshFileElem(info) ==
    Elem("MeshFile",
         <<<<"Id", Str(info.obj.name) \o "MeshFile">>,
           <<"Path", "Meshes/" \o info.mesh_file_name>>,
           <<"Category", "Vessel">>>>,
         <<>>)

\* mutant: the texture child is written without regard to textures_dir
TextureElems_AnyDir(info, tdir, role, tag) ==
    IF role \in info.maps
    THEN <<Elem(tag,
                <<<<"Path", "Textures/" \o Str(sanitize_filename(Materials[info.mat].name))
                                       \o "_" \o tag \o ".png">>,
                  <<"Category", "Vessel">>>>,
                <<>>)>>
    ELSE <<>>

\* one texture child of a PbrMaterial, when the role is in maps and
\* textures_dir is set
TextureElems(info, tdir, role, tag) ==
    IF role \in info.maps /\ Truthy(tdir)
    THEN <<Elem(tag,
                <<<<"Path", "Textures/" \o Str(sanitize_filename(Materials[info.mat].name))
                                       \o "_" \o tag \o ".png">>,
                  <<"Category", "Vessel">>>>,
                <<>>)>>
    ELSE <<>>

\* the PbrMaterial entries
PbrMaterialElem(info, tdir) ==
    Elem("PbrMaterial",
         <<<<"Id", info.material_id>>>>,
         TextureElems(info, tdir, "diffuse", "Diffuse")
            \o TextureElems(info, tdir, "normal", "Normal")
            \o TextureElems(info, tdir, "roughmetaao", "RoughMetaAo"))

\* sanitize_filename(self.part_id) or 'Vessel'
PartId(part_id) ==
    LET s == sanitize_filename(part_id)
    IN  IF s = <<>> THEN "Vessel" ELSE Str(s)

\* the first material of the slots, if any
FirstMaterial(slots) ==
    LET used == {j \in DOMAIN slots : slots[j] # NoMaterial}
    IN  IF used = {} THEN NoMaterial
        ELSE slots[CHOOSE j \in used : \A k \in used : j <= k]

\* the SubPart of one mesh
SubPartElem(info) ==
    LET first_mat == FirstMaterial(info.obj.material_slots)
    IN  Elem("SubPart",
             <<<<"Id", Str(info.obj.name)>>>>,
             <<Elem("SubPartModel",
                    <<<<"Id", Str(sanitize_filename(info.obj.name)) \o "Model">>>>,
                    <<Elem("Mesh", <<<<"Id", Str(info.obj.name) \o "MeshFile">>>>, <<>>)>>
                      \o (IF first_mat # NoMaterial
                          THEN <<Elem("Material",
                                      <<<<"Id", Str(sanitize_filename(Materials[first_mat].name))
                                                   \o "TextureFile">>>>,
                                      <<>>)>>
                          ELSE <<>>))>>)

\* mutant: the engines are added before the thrusters
PartChildren_EnginesFirst(infos, thrs, engs, places) ==
    [i \in DOMAIN infos |-> SubPartElem(infos[i])]
        \o [i \in DOMAIN engs |-> engine_dict_to_xml_element(engs[i], places)]
        \o [i \in DOMAIN thrs |-> thruster_dict_to_xml_element(thrs[i], places)]

\* the children of Part: mesh subparts, thrusters, engines
PartChildren(infos, thrs, engs, places) ==
    [i \in DOMAIN infos |-> SubPartElem(infos[i])]
        \o [i \in DOMAIN thrs |-> thruster_dict_to_xml_element(thrs[i], places)]
        \o [i \in DOMAIN engs |-> engine_dict_to_xml_element(engs[i], places)]

\* the Assets element once every SubElement call is made
AssetsRoot(infos, minfos, tdir, part_id, thrs, engs, places) ==
    Elem("Assets", <<>>,
         [i \in DOMAIN infos |-> MeshFileElem(infos[i])]
            \o [i \in DOMAIN minfos |-> PbrMaterialElem(minfos[i], tdir)]
            \o <<Elem("Part", <<<<"Id", PartId(part_id)>>>>,
                      PartChildren(infos, thrs, engs, places))>>)

(***************************************************************************)
(* "Serialize XML (pretty + CRLF)": utils._indent_xml, ET.tostring and the  *)
(* replacement of the line ends.  A text is kept as the sequence of its     *)
(* pieces: the markup of a tag, an indentation, or a line end.  The names   *)
(* of the model hold none of the characters ET.tostring escapes.            *)
(***************************************************************************)
LF == "\n"
CRLF == "\r\n"

RECURSIVE AttrsText(_)
AttrsText(attrs) ==
    IF attrs = <<>> THEN ""
    ELSE " " \o attrs[1][1] \o "=\"" \o attrs[1][2] \o "\"" \o AttrsText(Tail(attrs))

\* "\n" + "  " * level, as two pieces
LineBreak(level) == <<LF, Str(Repeat("  ", level))>>

RECURSIVE ElementText(_, _)
RECURSIVE ChildrenText(_, _)
\* every child preceded by the indentation _indent_xml put before it
ChildrenText(kids, level) ==
    IF kids = <<>> THEN <<>>
    ELSE LineBreak(level) \o ElementText(Head(kids), level)
            \o ChildrenText(Tail(kids), level)

\* ET.tostring of an element that _indent_xml has indented at this level
ElementText(e, level) ==
    IF e.kids = <<>>
    THEN <<"<" \o e.tag \o AttrsText(e.attrs) \o " />">>
    ELSE <<"<" \o e.tag \o AttrsText(e.attrs) \o ">">>
            \o ChildrenText(e.kids, level + 1)
            \o LineBreak(level)
            \o <<"</" \o e.tag \o ">">>

\* text.replace('\n', '\r\n')
ToCRLF(text) == [i \in DOMAIN text |-> IF text[i] = LF THEN CRLF ELSE text[i]]

XmlDeclaration == "<?xml version=\"1.0\" encoding=\"utf-8\"?>"

\* what the two f.write calls are given
PartXmlText(e) == <<XmlDeclaration, CRLF>> \o ToCRLF(ElementText(e, 0))

\* what a file opened with open(path, 'w') holds once the text is written:
\* in text mode every '\n' of the text is written as the line separator
\* of the platform
TextModeWrite(text, linesep) ==
    [i \in DOMAIN text |-> IF text[i] = LF THEN linesep
                           ELSE IF text[i] = CRLF THEN "\r" \o linesep
                           ELSE text[i]]

\* thrusters_list_to_xml_str
thrusters_list_to_xml_str(list_of_meta) ==
    ToCRLF(ElementText(Elem("Thrusters", <<>>,
                            [i \in DOMAIN list_of_meta |->
                                thruster_dict_to_xml_element(list_of_meta[i],
                                                             DefaultDecimalPlaces)]), 0))

\* engines_list_to_xml_str
engines_list_to_xml_str(list_of_meta) ==
    ToCRLF(ElementText(Elem("Engines", <<>>,
                            [i \in DOMAIN list_of_meta |->
                                engine_dict_to_xml_element(list_of_meta[i],
                                                           DefaultDecimalPlaces)]), 0))


(***************************************************************************)
(* The scenes the export is run on.  Four families: scenes that vary the    *)
(* names of their mesh objects, scenes that vary their thruster or engine   *)
(* objects, scenes that vary the materials of their meshes and are          *)
(* exported twice, and scenes that vary the part identifier.                *)
(***************************************************************************)
DistinctSeqs(S, n) ==
    {q \in UNION {[1..k -> S] : k \in 0..n} :
        \A a, b \in DOMAIN q : a # b => q[a] # q[b]}

NameHull == <<"H","u","l","l">>
NameDotHull == <<".","H","u","l","l">>
NameLowerHull == <<"h","u","l","l">>
NameHull1 == <<"H","u","l","l","_","1">>
NameSlash == <<"H","/">>

MeshNames == {NameHull, NameDotHull, NameLowerHull, NameHull1, NameSlash}

MyRocket == <<"M","y","R","o","c","k","e","t">>

PartIds == {<<>>, MyRocket, <<".", ".">>, <<"m","y"," ","r","o","c","k","e","t">>}

ForwardOnly == <<TRUE, FALSE, FALSE, FALSE, FALSE, FALSE>>
RollLeftOnly == <<FALSE, FALSE, TRUE, FALSE, FALSE, FALSE>>

ThrusterObjects ==
    { Object(<<"T","h","r","u","s","t","e","r">>, "EMPTY", FALSE, FALSE,
             ThrusterProps(TRUE, ForwardOnly, RollLeftOnly), EngineProps(TRUE), <<>>),
      Object(<<"R","C","S","_","1">>, "EMPTY", TRUE, FALSE,
             ThrusterProps(TRUE, NoMask, NoMask), EngineProps(TRUE), <<>>),
      Object(<<"R","C","S","_","2">>, "EMPTY", TRUE, FALSE,
             ThrusterProps(FALSE, NoMask, NoMask), EngineProps(TRUE), <<>>) }

EngineObjects ==
    { Object(<<"E","n","g","i","n","e">>, "EMPTY", FALSE, FALSE,
             ThrusterProps(TRUE, NoMask, NoMask), EngineProps(TRUE), <<>>),
      Object(<<"M","a","i","n">>, "EMPTY", FALSE, TRUE,
             ThrusterProps(TRUE, NoMask, NoMask), EngineProps(TRUE), <<>>),
      Object(<<"A","u","x">>, "EMPTY", FALSE, TRUE,
             ThrusterProps(TRUE, NoMask, NoMask), EngineProps(FALSE), <<>>) }

MeshLayouts ==
    { <<MeshObject(NameHull, <<"mA">>)>>,
      <<MeshObject(NameHull, <<"mA", "mB">>), MeshObject(NameDotHull, <<NoMaterial, "mB">>)>>,
      <<MeshObject(NameSlash, <<>>), MeshObject(NameHull, <<"mC">>),
        MeshObject(NameLowerHull, <<"mA">>)>> }

\* linesep is os.linesep of the platform the host runs on
Scene(objects, part_id, runs) ==
    [objects |-> objects, part_id |-> part_id, runs |-> runs,
     coordinate_decimal_places |-> DefaultDecimalPlaces, linesep |-> LF]

\* the same scene in a host running on Windows
OnWindows(sc) == [sc EXCEPT !.linesep = CRLF]

NameScenes ==
    { Scene([i \in DOMAIN names |-> MeshObject(names[i], <<>>)], MyRocket, 1) :
        names \in DistinctSeqs(MeshNames, MaxMeshes) }

TheThruster == CHOOSE o \in ThrusterObjects : o.name = ThrusterPrefix
TheEngine == CHOOSE o \in EngineObjects : o.name = EnginePrefix
TwoMeshes == CHOOSE m \in MeshLayouts : Len(m) = 2

RecordScenes ==
    { Scene(engs \o <<TheThruster>> \o TwoMeshes, MyRocket, 1) :
        engs \in DistinctSeqs(EngineObjects, MaxRecords) }
    \cup
    { Scene(<<TheEngine>> \o thrs \o TwoMeshes, MyRocket, 1) :
        thrs \in DistinctSeqs(ThrusterObjects, MaxRecords) }

RepeatScenes ==
    { Scene(<<TheEngine, TheThruster>> \o meshes, MyRocket, 2) : meshes \in MeshLayouts }

PartScenes ==
    { Scene(<<TheEngine, TheThruster>> \o TwoMeshes, part_id, 1) : part_id \in PartIds }

WindowsScenes == {OnWindows(sc) : sc \in PartScenes}

NameDeck == <<"D","e","c","k">>

\* meshes whose materials have no name, or names that sanitize alike
MaterialLayouts ==
    { <<MeshObject(NameHull, <<"mD">>)>>,
      <<MeshObject(NameHull, <<"mE">>), MeshObject(NameDeck, <<"mF">>)>>,
      <<MeshObject(NameHull, <<"mA", "mD">>), MeshObject(NameDeck, <<"mB">>)>> }

MaterialScenes == { Scene(meshes, MyRocket, 1) : meshes \in MaterialLayouts }

Scenes ==
    NameScenes \cup RecordScenes \cup RepeatScenes \cup PartScenes \cup WindowsScenes
        \cup MaterialScenes

\* a texture left in the target directory by an earlier export or by hand
OldTexture == ("Textures/Steel_Diffuse.png" :> <<"png", "old">>)

\* what the target directory holds before the first run
InitialFiles(sc) == IF sc \in RepeatScenes THEN {<<>>, OldTexture} ELSE {<<>>}

\* the selection the user has made before invoking the operator: the scenes
\* that vary their materials are exported from every combination of nothing
\* or everything selected and no or the first object active, the others with
\* everything selected and the first object active
InitialSelections(sc) ==
    LET names == {sc.objects[i].name : i \in DOMAIN sc.objects}
        first == IF sc.objects = <<>> THEN PyNone ELSE PyText(sc.objects[1].name)
    IN  IF sc \in MaterialScenes
        THEN {[selected |-> S, active |-> a] : S \in {{}, names}, a \in {PyNone, first}}
        ELSE {[selected |-> names, active |-> first]}

ExInit ==
    /\ scene \in Scenes
    /\ files \in InitialFiles(scene)
    /\ written = <<>>
    /\ faults = 0
    /\ run = 1
    /\ \E sel \in InitialSelections(scene) :
          selected = sel.selected /\ active = sel.active
    /\ pc = "start"
    /\ ExLocalsInit
    /\ SanIdle
    /\ ThIdle
    /\ MetaIdle
    /\ MapsIdle

(***************************************************************************)
(* OBJECT_OT_export_ksa_metadata.execute, step by step.  An external call   *)
(* (makedirs, the glTF exporter, open/write) succeeds or fails.             *)
(***************************************************************************)
Failed(ok) == IF ok THEN 0 ELSE 1

\* where execute stands after the naming loop has done n of the meshes
PcAfterNaming(meshes, n) == IF n < Len(meshes) THEN "name" ELSE
                            IF Len(meshes) > 0 THEN "export" ELSE "materials"

\* "Preserve selection": prev_selected and prev_active are read once the
\* naming loop is over
SavedAfterNaming(next_pc, current, previous) ==
    IF next_pc # "name" THEN current ELSE previous

\* the three collecting loops and the two makedirs calls
Prepare(meshes_ok, textures_ok) ==
    /\ pc = "start"
    /\ UNCHANGED <<san_vars, th_vars, pm_vars, mm_vars>>
    /\ faults + Failed(meshes_ok) + Failed(textures_ok) <= MaxFaults
    /\ faults' = faults + Failed(meshes_ok) + Failed(textures_ok)
    /\ thrusters' = CollectThrusters(scene.objects)
    /\ engines' = CollectEngines(scene.objects)
    /\ meshes_dir' = IF meshes_ok THEN "Meshes" ELSE ""
    /\ textures_dir' = IF textures_ok THEN PyStr("Textures") ELSE PyNone
    /\ mesh_objects' = CollectMeshes(scene.objects)
    /\ pc' = PcAfterNaming(mesh_objects', 0)
    /\ prev_selected' = SavedAfterNaming(pc', selected, prev_selected)
    /\ prev_active' = SavedAfterNaming(pc', active, prev_active)
    /\ UNCHANGED <<scene, files, written, run, selected, active, used_names,
                   mesh_export_info, export_idx, exported_mesh_count, material_infos,
                   mat_order, attempted, saved, root, result, report>>

\* one round of the loop "Unique filenames for meshes"
NameMesh ==
    /\ pc = "name"
    /\ UNCHANGED <<san_vars, th_vars, pm_vars, mm_vars>>
    /\ LET obj       == mesh_objects[Len(mesh_export_info) + 1]
           safe_name == SafeName(obj)
           candidate == UniqueCandidate(safe_name, used_names, safe_name, 1)
       IN  /\ used_names' = used_names \cup {UsedKey(candidate)}
           /\ mesh_export_info' =
                 Append(mesh_export_info, MeshInfo(obj, candidate, meshes_dir))
    /\ pc' = PcAfterNaming(mesh_objects, Len(mesh_export_info'))
    /\ prev_selected' = SavedAfterNaming(pc', selected, prev_selected)
    /\ prev_active' = SavedAfterNaming(pc', active, prev_active)
    /\ UNCHANGED <<host_vars, thrusters, engines, meshes_dir, textures_dir, mesh_objects,
                   export_idx, exported_mesh_count, material_infos, mat_order, attempted,
                   saved, root, result, report>>

\* mutant: a failed export ends the loop
PcAfterExport_Break(ok, done, n) == IF ok /\ done < n THEN "export" ELSE "materials"

\* where execute stands after a round of the export loop: a failure is
\* skipped with "continue"
PcAfterExport(ok, done, n) == IF done < n THEN "export" ELSE "materials"

\* the call of a round that raises: none in a round that succeeds, else
\* obj.select_set, the assignment of the active object, or the glTF exporter
RaisingCalls(ok) == IF ok THEN {"none"} ELSE {"select_set", "active", "gltf"}

\* the selection after a round: select_all(action='DESELECT') has emptied
\* it, and select_set(True) adds the object unless it raised
SelectedInRound(obj, raised) == IF raised = "select_set" THEN {} ELSE {obj.name}

\* the active object after a round: the object, unless the round was left
\* before the assignment was done
ActiveInRound(obj, raised, current) ==
    IF raised \in {"select_set", "active"} THEN current ELSE PyText(obj.name)

\* "Restore selection": everything is deselected and the objects of
\* prev_selected are selected again
RestoredSelection(previous) == previous

\* the active object is assigned only when prev_active is not None
RestoredActive(previous, current) == IF previous # PyNone THEN previous ELSE current

\* one round of the export loop: the object is selected and the glTF
\* exporter writes the file, or one of the two raises
ExportMesh(ok) ==
    /\ pc = "export"
    /\ UNCHANGED <<san_vars, th_vars, pm_vars, mm_vars>>
    /\ faults + Failed(ok) <= MaxFaults
    /\ faults' = faults + Failed(ok)
    /\ LET info == mesh_export_info[export_idx + 1]
       IN  /\ files' = IF ok
                       THEN (info.glb_path :> <<"glb", Str(info.obj.name)>>) @@ files
                       ELSE files
           /\ exported_mesh_count' = exported_mesh_count + (1 - Failed(ok))
           /\ attempted' = attempted \cup {info.glb_path}
           /\ saved' = IF ok THEN saved \cup {info.glb_path} ELSE saved
           /\ \E raised \in RaisingCalls(ok) :
                 /\ selected' = SelectedInRound(info.obj, raised)
                 /\ active' = ActiveInRound(info.obj, raised, active)
    /\ export_idx' = export_idx + 1
    /\ pc' = PcAfterExport(ok, export_idx', Len(mesh_export_info))
    /\ UNCHANGED <<scene, written, run, thrusters, engines, meshes_dir, textures_dir,
                   mesh_objects, used_names, mesh_export_info, material_infos, mat_order,
                   prev_selected, prev_active, root, result, report>>

\* the selection is restored and the set of materials is collected; the
\* loop over it will visit them in the order the set yields them
CollectMaterials(order) ==
    /\ pc = "materials"
    /\ UNCHANGED <<san_vars, th_vars, pm_vars, mm_vars>>
    /\ selected' = RestoredSelection(prev_selected)
    /\ active' = RestoredActive(prev_active, active)
    /\ mat_order' = order
    /\ pc' = IF order = <<>> THEN "xml" ELSE "textures"
    /\ UNCHANGED <<scene, files, written, faults, run, thrusters, engines, meshes_dir,
                   textures_dir, mesh_objects, used_names, mesh_export_info, export_idx,
                   exported_mesh_count, material_infos, prev_selected, prev_active,
                   attempted, saved, root, result, report>>

\* one round of the loop over the materials: each map whose file is to be
\* written is saved or, when the save and the fallback copy both fail, not
ProcessMaterial(outcome) ==
    /\ pc = "textures"
    /\ UNCHANGED <<san_vars, th_vars, pm_vars, mm_vars>>
    /\ LET mat    == mat_order[Len(material_infos) + 1]
           wanted == TexturesToSave(mat, textures_dir, files)
           failed == {role \in wanted : ~outcome[role]}
       IN  /\ faults + Cardinality(failed) <= MaxFaults
           /\ faults' = faults + Cardinality(failed)
           /\ files' = SaveTextures(mat, wanted \ failed, files)
           /\ attempted' = attempted \cup {TexturePath(mat, role) : role \in wanted}
           /\ saved' = saved \cup {TexturePath(mat, role) : role \in wanted \ failed}
           /\ material_infos' = Append(material_infos, MaterialInfo(mat))
    /\ pc' = IF Len(material_infos') < Len(mat_order) THEN "textures" ELSE "xml"
    /\ UNCHANGED <<scene, written, run, selected, active, thrusters, engines, meshes_dir,
                   textures_dir, mesh_objects, used_names, mesh_export_info, export_idx,
                   exported_mesh_count, mat_order, prev_selected, prev_active, root,
                   result, report>>

\* the document is built and serialized, and part.xml is written or not
WriteXml(ok) ==
    /\ pc = "xml"
    /\ UNCHANGED <<san_vars, th_vars, pm_vars, mm_vars>>
    /\ faults + Failed(ok) <= MaxFaults
    /\ faults' = faults + Failed(ok)
    /\ root' = AssetsRoot(mesh_export_info, material_infos, textures_dir, scene.part_id,
                          thrusters, engines, scene.coordinate_decimal_places)
    /\ attempted' = attempted \cup {"part.xml"}
    /\ IF ok
       THEN /\ files' = ("part.xml" :> TextModeWrite(PartXmlText(root'), scene.linesep))
                                @@ files
            /\ saved' = saved \cup {"part.xml"}
            /\ written' = Append(written, files'["part.xml"])
            /\ report' = [level |-> "INFO",
                          meshes |-> exported_mesh_count,
                          materials |-> Len(material_infos),
                          thrusters |-> Len(thrusters),
                          engines |-> Len(engines)]
            /\ result' = "FINISHED"
       ELSE /\ report' = [level |-> "ERROR"]
            /\ result' = "CANCELLED"
            /\ UNCHANGED <<files, written, saved>>
    /\ pc' = "done"
    /\ UNCHANGED <<scene, run, selected, active, thrusters, engines, meshes_dir,
                   textures_dir, mesh_objects, used_names, mesh_export_info, export_idx,
                   exported_mesh_count, material_infos, mat_order, prev_selected,
                   prev_active>>

\* the user invokes the operator again on the unchanged scene
Rerun ==
    /\ pc = "done"
    /\ UNCHANGED <<san_vars, th_vars, pm_vars, mm_vars>>
    /\ run < scene.runs
    /\ run' = run + 1
    /\ pc' = "start"
    /\ thrusters' = <<>>
    /\ engines' = <<>>
    /\ meshes_dir' = ""
    /\ textures_dir' = PyNone
    /\ mesh_objects' = <<>>
    /\ used_names' = {}
    /\ mesh_export_info' = <<>>
    /\ export_idx' = 0
    /\ exported_mesh_count' = 0
    /\ material_infos' = <<>>
    /\ mat_order' = <<>>
    /\ prev_selected' = {}
    /\ prev_active' = PyNone
    /\ attempted' = {}
    /\ saved' = {}
    /\ root' = PyNone
    /\ result' = "RUNNING"
    /\ report' = PyNone
    /\ UNCHANGED <<scene, files, written, faults, selected, active>>

ExNext ==
    \/ \E meshes_ok, textures_ok \in BOOLEAN : Prepare(meshes_ok, textures_ok)
    \/ NameMesh
    \/ \E ok \in BOOLEAN : ExportMesh(ok)
    \/ \E order \in IterationOrders(MaterialsUsed(mesh_objects)) : CollectMaterials(order)
    \/ \E outcome \in [MapRoles -> BOOLEAN] : ProcessMaterial(outcome)
    \/ \E ok \in BOOLEAN : WriteXml(ok)
    \/ Rerun

SpecExport == ExInit /\ [][ExNext]_vars


(***************************************************************************)
(* Claims about the composite export.                                       *)
(***************************************************************************)
C1_Digits == <<"1", "2", "3", "4", "5", "6", "7", "8", "9">>

\* <sanitizedName>_<k> for a one-digit k
C1_Numbered(safe, k) == safe \o <<"_", C1_Digits[k]>>

\* the lowercase names given to the entries before entry i
C1_Prior(i) == {Lower(mesh_export_info[j].candidate) : j \in 1..(i - 1)}

\* C1: whatever meshes the naming loop has processed, the file names given
\* so far are pairwise distinct when compared without case; a name is the
\* sanitized name itself unless that collides with an earlier name, and then
\* it is <sanitizedName>_<k> for the first k = 1, 2, ... that does not
\* collide; the stored name keeps its case.
C1_MeshNamesUnique ==
    /\ \A i, j \in DOMAIN mesh_export_info :
          i # j => Lower(mesh_export_info[i].candidate)
                      # Lower(mesh_export_info[j].candidate)
    /\ \A i \in DOMAIN mesh_export_info :
          LET info == mesh_export_info[i]
              safe == sanitize_filename(info.obj.name)
          IN  /\ info.mesh_file_name = Str(info.candidate) \o ".glb"
              /\ IF Lower(safe) \notin C1_Prior(i)
                 THEN info.candidate = safe
                 ELSE \E k \in 1..i :
                        /\ info.candidate = C1_Numbered(safe, k)
                        /\ Lower(C1_Numbered(safe, k)) \notin C1_Prior(i)
                        /\ \A m \in 1..(k - 1) :
                              Lower(C1_Numbered(safe, m)) \in C1_Prior(i)

\* "hull", then "Hull_1", then ".Hull", which collides twice and becomes Hull_2
C1_Witness ==
    /\ Len(mesh_export_info) = 3
    /\ mesh_export_info[1].candidate = NameLowerHull
    /\ mesh_export_info[2].candidate = NameHull1
    /\ mesh_export_info[3].obj.name = NameDotHull
    /\ mesh_export_info[3].mesh_file_name = "Hull_2.glb"

\* C2: when the two mesh assets of a scene both sanitize to "Hull", their
\* files are Hull.glb and Hull_1.glb and the Id of the second MeshFile
\* element is Hull_1MeshFile.
C2_SecondMeshFileId ==
    ( /\ pc = "done"
      /\ Len(mesh_export_info) = 2
      /\ \A i \in 1..2 : sanitize_filename(mesh_export_info[i].obj.name) = NameHull )
    => /\ mesh_export_info[1].mesh_file_name = "Hull.glb"
       /\ mesh_export_info[2].mesh_file_name = "Hull_1.glb"
       /\ root.kids[2].tag = "MeshFile"
       /\ Attr(root.kids[2], "Id") = "Hull_1MeshFile"

\* C5: the Id of the Part element is the sanitized part identifier, and it
\* is "Vessel" when the configured part identifier is empty.
C5_PartIdDefaultsToVessel ==
    pc = "done" =>
        LET part == root.kids[Len(root.kids)]
        IN  /\ part.tag = "Part"
            /\ scene.part_id # <<>> =>
                  Attr(part, "Id") = Str(sanitize_filename(scene.part_id))
            /\ scene.part_id = <<>> => Attr(part, "Id") = "Vessel"

C6_Times(tag, n) == [i \in 1..n |-> tag]

\* C6: the children of the root are the MeshFile elements, one per mesh in
\* mesh order, then the PbrMaterial elements, one per material, then one
\* Part; the children of Part are one SubPart per mesh, then one Thruster
\* per thruster record in record order, then one Engine per engine record
\* in record order.
C6_DocumentOrder ==
    pc = "done" =>
        LET n    == Len(mesh_export_info)
            m    == Cardinality(MaterialsUsed(mesh_objects))
            t    == Len(thrusters)
            e    == Len(engines)
            part == root.kids[n + m + 1]
        IN  /\ root.tag = "Assets"
            /\ Tags(root.kids) = C6_Times("MeshFile", n) \o C6_Times("PbrMaterial", m)
                                    \o <<"Part">>
            /\ \A i \in 1..n :
                  Attr(root.kids[i], "Path") = "Meshes/" \o mesh_export_info[i].mesh_file_name
            /\ {material_infos[i].mat : i \in 1..m} = MaterialsUsed(mesh_objects)
            /\ \A i \in 1..m :
                  Attr(root.kids[n + i], "Id") = material_infos[i].material_id
            /\ Tags(part.kids) = C6_Times("SubPart", n) \o C6_Times("Thruster", t)
                                    \o C6_Times("Engine", e)
            /\ \A i \in 1..n :
                  Attr(part.kids[i], "Id") = Str(mesh_export_info[i].obj.name)
            /\ \A i \in 1..t : Attr(part.kids[n + i], "Id") = thrusters[i].name
            /\ \A i \in 1..e : Attr(part.kids[n + t + i], "Id") = engines[i].name

\* a document with two meshes, two materials, two thrusters and an engine
C6_Witness ==
    /\ pc = "done"
    /\ Len(mesh_export_info) = 2
    /\ Len(material_infos) = 2
    /\ Len(thrusters) = 2
    /\ Len(engines) = 1
    /\ Len(root.kids) = 5

\* C8: two runs of the export over the same unchanged scene, none of whose
\* external calls fails, write the same part.xml text.
C8_SameTextTwice ==
    (Len(written) = 2 /\ faults = 0) => written[1] = written[2]


(***************************************************************************)
(* The legacy metadata blob.  The values of a baked record are Python       *)
(* values: None, booleans, integers, floats (kept in thousandths), texts    *)
(* and lists.  A dict is the sequence of its (key, value) pairs in          *)
(* insertion order.                                                         *)
(*                                                                          *)
(* An XML or JSON string is kept as the sequence of its lexical pieces: a   *)
(* start tag, an end tag, an empty-element tag, or a run of character data  *)
(* (a text).  ET.tostring produces such a sequence and ET.fromstring        *)
(* parses one.  The texts of the model hold none of the characters that     *)
(* are escaped in XML, and no exponent, "inf" or "nan" spelling of a float. *)
(***************************************************************************)
\* a tag piece holds the tag, a text piece its characters
Tok(kind, v) == IF kind = "text" THEN [k |-> kind, text |-> v] ELSE [k |-> kind, tag |-> v]

(***************************************************************************)
(* utils.meta_dict_to_xml_str                                               *)
(***************************************************************************)
\* ET.tostring of an element that has a text and no children
TextElementTokens(tag, text) ==
    IF text = <<>> THEN <<Tok("empty", tag)>>
    ELSE <<Tok("open", tag), Tok("text", text), Tok("close", tag)>>

\* ET.tostring of an element that has these serialized children and no text
ParentElementTokens(tag, inner) ==
    IF inner = <<>> THEN <<Tok("empty", tag)>>
    ELSE <<Tok("open", tag)>> \o inner \o <<Tok("close", tag)>>

RECURSIVE ItemTokens(_)
ItemTokens(items) ==
    IF items = <<>> THEN <<>>
    ELSE TextElementTokens("item", PyToText(Head(items))) \o ItemTokens(Tail(items))

\* the child element written for one key of the dict
MetaChildTokens(key, v) ==
    IF v.t = "list" THEN ParentElementTokens(key, ItemTokens(v.v))
    ELSE TextElementTokens(key, PyToText(v))

RECURSIVE MetaChildrenTokens(_)
MetaChildrenTokens(pairs) ==
    IF pairs = <<>> THEN <<>>
    ELSE MetaChildTokens(pairs[1][1], pairs[1][2]) \o MetaChildrenTokens(Tail(pairs))

\* the tag of the root element
MetaRootTag == "metadata"

meta_dict_to_xml_str(meta_dict) ==
    ParentElementTokens(MetaRootTag, MetaChildrenTokens(meta_dict))

(***************************************************************************)
(* ET.fromstring: the element tree of a well-formed document, or a          *)
(* ParseError.  A parsed element has a tag, a text (None when it has        *)
(* none) and its children.                                                  *)
(***************************************************************************)
XElem(tag, text, kids) == [tag |-> tag, text |-> text, kids |-> kids]

ParseFailure == [ok |-> FALSE]

RECURSIVE ParseElement(_, _)
RECURSIVE ParseContent(_, _, _, _, _)
RECURSIVE AfterChild(_, _, _, _, _)
\* the content of an element whose start tag has been read, up to its end tag
ParseContent(toks, i, tag, text, kids) ==
    IF i > Len(toks) THEN ParseFailure
    ELSE CASE toks[i].k = "close" ->
                IF toks[i].tag = tag
                THEN [ok |-> TRUE, elem |-> XElem(tag, text, kids), next |-> i + 1]
                ELSE ParseFailure
           [] toks[i].k = "text" ->
                ParseContent(toks, i + 1, tag,
                             IF kids = <<>> /\ text = PyNone THEN PyText(toks[i].text) ELSE text,
                             kids)
           [] OTHER -> AfterChild(toks, tag, text, kids, ParseElement(toks, i))

\* the content goes on after a child element
AfterChild(toks, tag, text, kids, child) ==
    IF child.ok
    THEN ParseContent(toks, child.next, tag, text, Append(kids, child.elem))
    ELSE ParseFailure

\* the element that starts at piece i
ParseElement(toks, i) ==
    IF i > Len(toks) THEN ParseFailure
    ELSE CASE toks[i].k = "empty" ->
                [ok |-> TRUE, elem |-> XElem(toks[i].tag, PyNone, <<>>), next |-> i + 1]
           [] toks[i].k = "open" -> ParseContent(toks, i + 1, toks[i].tag, PyNone, <<>>)
           [] OTHER -> ParseFailure

\* a document is one element and nothing after it
WholeDocument(toks, r) == IF r.ok /\ r.next = Len(toks) + 1 THEN r ELSE ParseFailure

\* ET.fromstring(s)
ET_fromstring(toks) == WholeDocument(toks, ParseElement(toks, 1))

(***************************************************************************)
(* Exceptions: a call returns a value or raises an exception of a kind.     *)
(***************************************************************************)
Ok(v) == [exc |-> "", val |-> v]
Raise(kind) == [exc |-> kind, val |-> PyNone]
Raised(r) == r.exc # ""

\* a list built from a first value and the values after it; the first
\* exception of the two is the one raised
Cons(first, rest) ==
    IF Raised(first) THEN first
    ELSE IF Raised(rest) THEN rest
    ELSE Ok(<<first.val>> \o rest.val)

\* the Python list of a sequence of values
AsList(r) == IF Raised(r) THEN r ELSE Ok(PyList(r.val))

(***************************************************************************)
(* int(t), float(t) and the type inference of utils._element_to_dict        *)
(***************************************************************************)
IsDigit(c) == c \in Range(DigitChars)

Unsigned(t) == IF t # <<>> /\ Head(t) \in {"+", "-"} THEN Tail(t) ELSE t

Negative(t) == t # <<>> /\ Head(t) = "-"

Dots(u) == {i \in DOMAIN u : u[i] = "."}

\* where the fraction starts: the index of the dot, or one past the end
DotIndex(u) == IF Dots(u) = {} THEN Len(u) + 1 ELSE CHOOSE i \in Dots(u) : TRUE

\* int(t) succeeds
IsIntText(t) ==
    /\ Unsigned(t) # <<>>
    /\ \A i \in DOMAIN Unsigned(t) : IsDigit(Unsigned(t)[i])

\* digits with at most one dot among them, and at least one digit
IsDecimal(u) ==
    /\ Cardinality(Dots(u)) <= 1
    /\ Len(u) > Cardinality(Dots(u))
    /\ \A i \in DOMAIN u \ Dots(u) : IsDigit(u[i])

\* float(t) succeeds
IsFloatText(t) == IsDecimal(Unsigned(t))

DigitValue(c) == (CHOOSE i \in DOMAIN DigitChars : DigitChars[i] = c) - 1

RECURSIVE NatValue(_)
NatValue(digits) ==
    IF digits = <<>> THEN 0
    ELSE 10 * NatValue(SubSeq(digits, 1, Len(digits) - 1)) + DigitValue(digits[Len(digits)])

IntValue(t) == IF Negative(t) THEN -NatValue(Unsigned(t)) ELSE NatValue(Unsigned(t))

\* the value of a decimal in thousandths (the texts of the model have at most
\* three decimals)
Milli(u) ==
    1000 * NatValue(SubSeq(u, 1, DotIndex(u) - 1))
        + NatValue(SubSeq(SubSeq(u, DotIndex(u) + 1, Len(u)) \o <<"0", "0", "0">>, 1, 3))

\* float(t) in thousandths
FloatValue(t) == IF Negative(t) THEN -Milli(Unsigned(t)) ELSE Milli(Unsigned(t))

TextTrue == <<"t","r","u","e">>
TextFalse == <<"f","a","l","s","e">>

\* float(t) for the text t of an element, which is None when it has none
FloatOf(text) ==
    IF text.t = "none" THEN Raise("TypeError")
    ELSE IF IsFloatText(text.v) THEN Ok(PyFloat(FloatValue(text.v)))
    ELSE Raise("ValueError")

\* float(t) if '.' in t else int(t)
NumberOf(t) ==
    IF "." \in Range(t)
    THEN (IF IsFloatText(t) THEN Ok(PyFloat(FloatValue(t))) ELSE Raise("ValueError"))
    ELSE (IF IsIntText(t) THEN Ok(PyInt(IntValue(t))) ELSE Raise("ValueError"))

\* t.lower() == 'true' if t.lower() in ('true', 'false') else t
BoolOrText(t) ==
    IF Lower(t) \in {TextTrue, TextFalse} THEN PyBool(Lower(t) = TextTrue) ELSE PyText(t)

\* the number, and what the except branch makes of t when there is none
NumberOr(number, other) == IF Raised(number) THEN other ELSE number.val

\* one value of a generic list: the number is tried first
InferListItem(text) ==
    IF text.t = "none" THEN PyNone
    ELSE NumberOr(NumberOf(text.v), BoolOrText(text.v))

\* mutant: 'true' and 'false' are recognised in lower case only
InferLeaf_CaseSensitive(text) ==
    IF text.t = "none" THEN PyNone
    ELSE IF text.v \in {TextTrue, TextFalse} THEN PyBool(text.v = TextTrue)
    ELSE NumberOr(NumberOf(text.v), PyText(text.v))

\* the value of a child without sub-elements: the boolean is tried first
InferLeaf(text) ==
    IF text.t = "none" THEN PyNone
    ELSE IF Lower(text.v) \in {TextTrue, TextFalse} THEN PyBool(Lower(text.v) = TextTrue)
    ELSE NumberOr(NumberOf(text.v), PyText(text.v))

\* [float(t) for t in texts], texts being the texts of these elements
RECURSIVE FloatsOf(_)
FloatsOf(elems) ==
    IF elems = <<>> THEN Ok(<<>>)
    ELSE Cons(FloatOf(Head(elems).text), FloatsOf(Tail(elems)))

ChildTags(child) == {child.kids[j].tag : j \in DOMAIN child.kids}

\* the value of a child that has sub-elements
SubElementsValue(child) ==
    IF ChildTags(child) \subseteq {"r", "g", "b"} \/ ChildTags(child) \subseteq {"x", "y", "z"}
    THEN AsList(FloatsOf(child.kids))
    ELSE Ok(PyList([j \in DOMAIN child.kids |-> InferListItem(child.kids[j].text)]))

\* the value stored for one child
ChildValue(child) ==
    IF Len(child.kids) > 0 THEN SubElementsValue(child) ELSE Ok(InferLeaf(child.text))

\* d[key] = v
DictSet(pairs, key, v) ==
    IF \E j \in DOMAIN pairs : pairs[j][1] = key
    THEN [j \in DOMAIN pairs |-> IF pairs[j][1] = key THEN <<key, v>> ELSE pairs[j]]
    ELSE Append(pairs, <<key, v>>)

DictKeys(d) == {d.v[j][1] : j \in DOMAIN d.v}

RECURSIVE ElementToDictFrom(_, _, _)
RECURSIVE SetChild(_, _, _, _)
\* the loop of _element_to_dict from child i on, pairs being the dict so far
ElementToDictFrom(elem, i, pairs) ==
    IF i > Len(elem.kids) THEN Ok(PyDict(pairs))
    ELSE SetChild(elem, i, pairs, ChildValue(elem.kids[i]))

\* d[child.tag] = value, unless computing the value raised
SetChild(elem, i, pairs, value) ==
    IF Raised(value) THEN value
    ELSE ElementToDictFrom(elem, i + 1, DictSet(pairs, elem.kids[i].tag, value.val))

element_to_dict(elem) == ElementToDictFrom(elem, 1, <<>>)

\* [_element_to_dict(child) for child in root]
RECURSIVE ElementsToDicts(_)
ElementsToDicts(kids) ==
    IF kids = <<>> THEN Ok(<<>>)
    ELSE Cons(element_to_dict(Head(kids)), ElementsToDicts(Tail(kids)))

(***************************************************************************)
(* json.loads, on the JSON texts of the model: a number, true, false, null  *)
(* and the object {"a":1}.  Any other string is no JSON.                    *)
(***************************************************************************)
JsonObjectText == <<"{", "\"", "a", "\"", ":", "1", "}">>
TextNull == <<"n","u","l","l">>

\* (0|[1-9][0-9]*) with an optional fraction of at least one digit
IsJsonDecimal(u) ==
    /\ Cardinality(Dots(u)) <= 1
    /\ \A i \in DOMAIN u \ Dots(u) : IsDigit(u[i])
    /\ DotIndex(u) >= 2
    /\ DotIndex(u) > 2 => u[1] # "0"
    /\ Dots(u) # {} => DotIndex(u) < Len(u)

\* a JSON number: a decimal with an optional minus sign
IsJsonNumber(t) == IsJsonDecimal(IF Negative(t) THEN Tail(t) ELSE t)

JsonValue(t) ==
    CASE t = JsonObjectText -> Ok(PyDict(<<<<"a", PyInt(1)>>>>))
      [] t = TextTrue -> Ok(PyBool(TRUE))
      [] t = TextFalse -> Ok(PyBool(FALSE))
      [] t = TextNull -> Ok(PyNone)
      [] IsJsonNumber(t) /\ "." \in Range(t) -> Ok(PyFloat(FloatValue(t)))
      [] IsJsonNumber(t) /\ "." \notin Range(t) -> Ok(PyInt(IntValue(t)))
      [] OTHER -> Raise("JSONDecodeError")

json_loads(toks) ==
    IF Len(toks) # 1 \/ toks[1].k # "text" THEN Raise("JSONDecodeError")
    ELSE JsonValue(toks[1].text)

(***************************************************************************)
(* utils.parse_meta_string.  Its argument is None or a string.              *)
(***************************************************************************)
IsSpace(tok) == tok.k = "text" /\ \A j \in DOMAIN tok.text : tok.text[j] = " "

\* s.strip(): the strings of the model have their spaces in pieces of their own
RECURSIVE StripLeft(_)
StripLeft(toks) ==
    IF toks # <<>> /\ IsSpace(Head(toks)) THEN StripLeft(Tail(toks)) ELSE toks

RECURSIVE StripRight(_)
StripRight(toks) ==
    IF toks # <<>> /\ IsSpace(toks[Len(toks)])
    THEN StripRight(SubSeq(toks, 1, Len(toks) - 1)) ELSE toks

Strip(toks) == StripRight(StripLeft(toks))

\* s.startswith('<')
StartsWithMarkup(toks) == toks # <<>> /\ toks[1].k \in {"open", "close", "empty"}

\* a try block that ran to its end without a return
NoReturn == [exc |-> "", val |-> [t |-> "noreturn"]]

\* what the try block makes of the outcome of ET.fromstring
RootValue(parsed) ==
    IF ~parsed.ok THEN Raise("ParseError")
    ELSE IF parsed.elem.tag = "thruster" THEN element_to_dict(parsed.elem)
    ELSE IF parsed.elem.tag = "thrusters" THEN AsList(ElementsToDicts(parsed.elem.kids))
    ELSE NoReturn

\* the body of the try block: what it returns or raises, or NoReturn
XmlAttempt(toks) == RootValue(ET_fromstring(toks))

\* mutant: except ET.ParseError: pass
CatchXml_ParseErrorOnly(r) == IF r.exc = "ParseError" THEN NoReturn ELSE r

\* except Exception: pass
CatchXml(r) == IF Raised(r) THEN NoReturn ELSE r

\* except Exception: return None
CatchJson(r) == IF Raised(r) THEN Ok(PyNone) ELSE r

\* try: return json.loads(s) / except Exception: return None
JsonAttempt(toks) == CatchJson(json_loads(toks))

\* the JSON fallback is reached when the XML attempt has not returned
OrJson(xml, toks) == IF xml # NoReturn THEN xml ELSE JsonAttempt(toks)

\* parse_meta_string from s = s.strip() on
ParseStripped(toks) ==
    IF StartsWithMarkup(toks) THEN OrJson(CatchXml(XmlAttempt(toks)), toks)
    ELSE JsonAttempt(toks)

parse_meta_string(s) ==
    IF s.t = "none" \/ s.v = <<>> THEN Ok(PyNone)
    ELSE ParseStripped(Strip(s.v))

(***************************************************************************)
(* The legacy metadata of one thruster object: the bake operator stores     *)
(* the blob on the object, parse_meta_string reads it back, and the         *)
(* GLB + metadata export builds its metadata list from it.                  *)
(***************************************************************************)
\* an object as far as these operators read it; props is None where the
\* property group is not registered, meta is the custom property _thruster_meta
MetaObject(name, props, location, meta) ==
    [name |-> name, thruster_props |-> props, location |-> location, meta |-> meta]

MetaProps(thrust_n, tmask, rmask, exportable) ==
    [thrust_n |-> PyFloat(thrust_n),
     specific_impulse_seconds |-> PyFloat(280000),
     minimum_pulse_time_seconds |-> PyFloat(500),
     volumetric_exhaust_id |-> PyText(<<"A","p","o","l","l","o","R","C","S">>),
     sound_event_on |-> PyText(<<"D","e","f","a","u","l","t">>),
     control_map_translation |-> tmask,
     control_map_rotation |-> rmask,
     exportable |-> PyBool(exportable)]

\* list(vec_prop) of a boolean vector property
safe_vector_to_list(vec_prop) == PyList([j \in DOMAIN vec_prop |-> PyBool(vec_prop[j])])

\* the dict built from an object and its thruster_props
ThrusterMeta(o) ==
    LET kp == o.thruster_props
    IN  << <<"name", PyText(o.name)>>,
           <<"thrust_n", kp.thrust_n>>,
           <<"specific_impulse_seconds", kp.specific_impulse_seconds>>,
           <<"minimum_pulse_time_seconds", kp.minimum_pulse_time_seconds>>,
           <<"volumetric_exhaust_id", kp.volumetric_exhaust_id>>,
           <<"sound_event_on", kp.sound_event_on>>,
           <<"control_map_translation", safe_vector_to_list(kp.control_map_translation)>>,
           <<"control_map_rotation", safe_vector_to_list(kp.control_map_rotation)>>,
           <<"exportable", kp.exportable>>,
           <<"location", o.location>> >>

\* bool(jm) of a custom property that is None or a string
HasMeta(o) == o.meta.t = "str" /\ o.meta.v # <<>>

\* one entry of meta_list and where it came from
MetaEntry(origin, entry) == [origin |-> origin, entry |-> entry]

\* the entry built from the object's properties, if it has them
PropsEntries(o) ==
    IF o.thruster_props # PyNone
    THEN <<MetaEntry("props", PyDict(ThrusterMeta(o)))>>
    ELSE <<>>

\* what the loop appends for an object whose blob parsed to this
EntriesFor(o, parsed) ==
    IF Raised(parsed) THEN parsed
    ELSE IF parsed.val.t = "dict" THEN Ok(<<MetaEntry("baked", parsed.val)>>)
    ELSE IF parsed.val.t = "list"
    THEN Ok([j \in DOMAIN parsed.val.v |-> MetaEntry("baked", parsed.val.v[j])])
    ELSE Ok(PropsEntries(o))

\* one round of the loop "Build metadata list for thrusters"
MetaListFor(o) ==
    EntriesFor(o, IF HasMeta(o) THEN parse_meta_string(o.meta) ELSE Ok(PyNone))

(***************************************************************************)
(* The strings handed to parse_meta_string.                                 *)
(***************************************************************************)
MaxItems == 2          \* sub-elements of a vector or list child

T_40_0 == <<"4","0",".","0">>
T_40 == <<"4","0">>
T_abc == <<"a","b","c">>
T_1_2_3 == <<"1",".","2",".","3">>
T_neg1 == <<"-","1">>
T_0_5 == <<"0",".","5">>
T_True == <<"T","r","u","e">>

\* the text of an element: None for an element written without any
NumericTexts == {PyText(T_40_0), PyText(T_40), PyText(T_neg1), PyText(T_0_5)}
BadVectorTexts == {PyNone, PyText(T_abc), PyText(T_1_2_3)}
ItemTexts == {PyNone, PyText(T_40_0), PyText(T_40), PyText(T_abc), PyText(T_1_2_3)}
LeafTexts == NumericTexts \cup BadVectorTexts \cup {PyText(T_True), PyText(TextFalse)}

\* <tag>text</tag>, or <tag /> for an element without text
LeafTokens(tag, text) ==
    IF text = PyNone THEN <<Tok("empty", tag)>>
    ELSE <<Tok("open", tag), Tok("text", text.v), Tok("close", tag)>>

RECURSIVE LeavesTokens(_, _)
LeavesTokens(tags, texts) ==
    IF texts = <<>> THEN <<>>
    ELSE LeafTokens(Head(tags), Head(texts)) \o LeavesTokens(Tail(tags), Tail(texts))

ThrusterDoc(inner) == <<Tok("open", "thruster")>> \o inner \o <<Tok("close", "thruster")>>

\* <thruster><name>...sub-elements...</name></thruster>
ChildDoc(name, tags, texts) ==
    ThrusterDoc(<<Tok("open", name)>> \o LeavesTokens(tags, texts) \o <<Tok("close", name)>>)

TextsOver(S) == UNION {[1..n -> S] : n \in 1..MaxItems}

AxisTags(n) == [j \in 1..n |-> <<"x", "y", "z">>[((j - 1) % 3) + 1]]
ColorTags(n) == [j \in 1..n |-> <<"r", "g", "b">>[((j - 1) % 3) + 1]]
ItemTags(n) == [j \in 1..n |-> "item"]

VectorTagsOf(n) == {AxisTags(n), ColorTags(n)}

\* vector children whose sub-elements all hold a number
GoodVectorDocs ==
    {ChildDoc("location", tags, texts) :
        <<tags, texts>> \in UNION {VectorTagsOf(Len(ts)) \X {ts} : ts \in TextsOver(NumericTexts)}}

\* vector children with a sub-element whose text is missing or no number
BadVectorDocs ==
    {ChildDoc("location", tags, texts) :
        <<tags, texts>> \in UNION {VectorTagsOf(Len(ts)) \X {ts} :
            ts \in {t \in TextsOver(NumericTexts \cup BadVectorTexts) :
                        \E j \in DOMAIN t : t[j] \in BadVectorTexts}}}

\* vector children that hold all three axes or all three colours
FullVectorTexts ==
    {<<PyText(T_40_0), PyText(T_40), PyText(T_neg1)>>,
     <<PyText(T_40), PyText(T_40), PyText(T_0_5)>>}

FullVectorDocs ==
    {ChildDoc("location", tags, texts) :
        tags \in {<<"x", "y", "z">>, <<"r", "g", "b">>}, texts \in FullVectorTexts}

ListDocs == {ChildDoc("control_map_translation", ItemTags(Len(ts)), ts) : ts \in TextsOver(ItemTexts)}

LeafDocs == {ThrusterDoc(LeafTokens("thrust_n", t)) : t \in LeafTexts}

ThrustersDocs ==
    {<<Tok("open", "thrusters")>> \o a \o b \o <<Tok("close", "thrusters")>> :
        a \in {<<>>, ThrusterDoc(LeafTokens("thrust_n", PyText(T_40_0)))},
        b \in {<<>>, ThrusterDoc(LeafTokens("name", PyText(T_abc))),
               ChildDoc("location", AxisTags(1), <<PyText(T_abc)>>)}}

\* <thrusters> around a thruster that has a bad vector child
BadVectorListDocs ==
    {d \in ThrustersDocs : \E j \in DOMAIN d : d[j] = Tok("open", "location")}

MalformedDocs ==
    {<<Tok("open", "thruster")>>,
     <<Tok("close", "thruster")>>,
     <<Tok("open", "thruster"), Tok("close", "thrusters")>>,
     <<Tok("open", "thruster"), Tok("open", "name"), Tok("close", "thruster"), Tok("close", "name")>>,
     <<Tok("empty", "thruster"), Tok("empty", "thruster")>>,
     <<Tok("empty", "thruster"), Tok("text", T_abc)>>,
     <<Tok("open", "thrusters"), Tok("open", "thruster"), Tok("close", "thrusters")>>}

UnknownRootDocs ==
    {<<Tok("empty", "metadata")>>,
     <<Tok("open", "metadata")>> \o LeafTokens("thrust_n", PyText(T_40_0)) \o <<Tok("close", "metadata")>>,
     <<Tok("open", "Thruster")>> \o LeafTokens("thrust_n", PyText(T_40_0)) \o <<Tok("close", "Thruster")>>,
     <<Tok("open", "engine")>> \o LeafTokens("x", PyText(T_abc)) \o <<Tok("close", "engine")>>}

\* the document of the parser's worked example
ExampleDoc ==
    ThrusterDoc(LeafTokens("thrust_n", PyText(T_40_0))
                    \o LeafTokens("exportable", PyText(TextTrue)))

T_not_xml_or_json ==
    <<"n","o","t"," ","x","m","l"," ","o","r"," ","j","s","o","n">>

\* neither XML nor JSON
GarbageTexts ==
    {<<Tok("text", T_abc)>>,
     <<Tok("text", T_not_xml_or_json)>>,
     <<Tok("text", <<"{">>)>>,
     <<Tok("text", T_1_2_3)>>,
     <<Tok("text", <<"0","1">>)>>,
     <<Tok("text", T_True)>>,
     <<Tok("text", T_abc), Tok("empty", "thruster")>>,
     <<Tok("text", <<" ">>)>>}

\* JSON texts and the values they stand for
JsonExamples ==
    {<<JsonObjectText, PyDict(<<<<"a", PyInt(1)>>>>)>>,
     <<T_40, PyInt(40)>>,
     <<T_neg1, PyInt(-1)>>,
     <<T_40_0, PyFloat(40000)>>,
     <<T_0_5, PyFloat(500)>>,
     <<TextTrue, PyBool(TRUE)>>,
     <<TextFalse, PyBool(FALSE)>>,
     <<TextNull, PyNone>>}

JsonTexts == {<<Tok("text", e[1])>> : e \in JsonExamples}

Space == Tok("text", <<" ">>)

\* a string with spaces around it
Padded(S) == {<<Space>> \o d \o <<Space>> : d \in S}

MetaStrings ==
    LET plain == GoodVectorDocs \cup BadVectorDocs \cup FullVectorDocs \cup ListDocs
                    \cup LeafDocs
                    \cup ThrustersDocs \cup MalformedDocs \cup UnknownRootDocs
                    \cup GarbageTexts \cup JsonTexts
    IN  {<<>>, <<Space>>, <<Space, Space>>, ExampleDoc} \cup plain
            \cup Padded(MalformedDocs \cup UnknownRootDocs \cup JsonTexts \cup LeafDocs)

\* what the custom property of an object can hold before anything is baked
MetaInputs == {PyNone} \cup {PyStr(d) : d \in MetaStrings}

(***************************************************************************)
(* The metadata harness.                                                    *)
(***************************************************************************)
MetaNames == {<<"T">>, <<"R","C","S">>}

MetaPropsPool ==
    {MetaProps(thrust_n, tmask, NoMask, exportable) :
        thrust_n \in {0, 40000},
        tmask \in {NoMask, ForwardOnly},
        exportable \in BOOLEAN}

MetaLocations == {PyNone, PyList(<<PyFloat(1500), PyFloat(0), PyFloat(-250)>>)}

\* objects the bake operator is run on
BakeObjects ==
    {MetaObject(name, props, location, PyNone) :
        name \in MetaNames, props \in MetaPropsPool \cup {PyNone}, location \in MetaLocations}

\* objects whose custom property was set before
StoredObjects ==
    {MetaObject(<<"T">>, props, PyNone, meta) :
        props \in {PyNone, MetaProps(40000, ForwardOnly, NoMask, TRUE),
                   MetaProps(40000, ForwardOnly, NoMask, FALSE)},
        meta \in MetaInputs}

MetaInit ==
    /\ \/ pm_pc = "bake" /\ pm_obj \in BakeObjects
       \/ pm_pc = "ready" /\ pm_obj \in StoredObjects
    /\ pm_baked = PyNone
    /\ pm_out = PyNone
    /\ pm_list = PyNone
    /\ SanIdle
    /\ ThIdle
    /\ ExIdle
    /\ MapsIdle

\* the bake operator on the object: objects without thruster_props are skipped
BakeMeta ==
    /\ pm_pc = "bake"
    /\ pm_pc' = "ready"
    /\ IF pm_obj.thruster_props = PyNone
       THEN UNCHANGED <<pm_obj, pm_baked>>
       ELSE LET meta == ThrusterMeta(pm_obj)
            IN  /\ pm_obj' = [pm_obj EXCEPT !.meta = PyStr(meta_dict_to_xml_str(meta))]
                /\ pm_baked' = PyDict(meta)
    /\ UNCHANGED <<pm_out, pm_list, san_vars, th_vars, ex_vars, mm_vars>>

\* a call parse_meta_string(o.get('_thruster_meta'))
ParseMeta ==
    /\ pm_pc = "ready"
    /\ pm_pc' = "parsed"
    /\ pm_out' = parse_meta_string(pm_obj.meta)
    /\ UNCHANGED <<pm_obj, pm_baked, pm_list, san_vars, th_vars, ex_vars, mm_vars>>

\* the GLB + metadata export builds its metadata list
BuildMetaList ==
    /\ pm_pc = "parsed"
    /\ pm_pc' = "done"
    /\ pm_list' = MetaListFor(pm_obj)
    /\ UNCHANGED <<pm_obj, pm_baked, pm_out, san_vars, th_vars, ex_vars, mm_vars>>

MetaNext ==
    \/ BakeMeta
    \/ ParseMeta
    \/ BuildMetaList

SpecMeta == MetaInit /\ [][MetaNext]_vars

(***************************************************************************)
(* C9: a blob written by meta_dict_to_xml_str is recovered by               *)
(* parse_meta_string.  Once the bake operator has stored the blob of a      *)
(* dict on an object, parsing the object's blob returns a dict that has     *)
(* every top-level key of the baked dict, and the metadata list of the      *)
(* GLB + metadata export holds that parsed record for the object rather     *)
(* than an entry built from its current properties.                         *)
(***************************************************************************)
C9_Recovered(out) ==
    /\ ~Raised(out)
    /\ out.val.t = "dict"
    /\ DictKeys(pm_baked) \subseteq DictKeys(out.val)

C9_BakedBlobRecovered ==
    pm_baked # PyNone =>
        /\ pm_pc \in {"parsed", "done"} => C9_Recovered(pm_out)
        /\ pm_pc = "done" =>
              /\ ~Raised(pm_list)
              /\ pm_list.val = <<MetaEntry("baked", pm_out.val)>>

(***************************************************************************)
(* C10: parse_meta_string never raises, whatever string it is given.        *)
(* Malformed XML, XML with an unknown root tag, XML whose vector children   *)
(* hold a missing or non-numeric text, and text that is neither XML nor     *)
(* JSON give None; a JSON text gives the value it stands for.               *)
(***************************************************************************)
C10_NoneInputs ==
    MalformedDocs \cup UnknownRootDocs \cup BadVectorDocs \cup BadVectorListDocs
        \cup GarbageTexts \cup Padded(MalformedDocs \cup UnknownRootDocs)

C10_JsonValue(toks) ==
    LET text == IF Len(toks) = 3 THEN toks[2].text ELSE toks[1].text
    IN  (CHOOSE e \in JsonExamples : e[1] = text)[2]

C10_NeverRaises ==
    (pm_pc \in {"parsed", "done"} /\ pm_baked = PyNone) =>
        /\ ~Raised(pm_out)
        /\ (pm_obj.meta # PyNone /\ pm_obj.meta.v \in C10_NoneInputs) => pm_out.val = PyNone
        /\ (pm_obj.meta # PyNone /\ pm_obj.meta.v \in JsonTexts \cup Padded(JsonTexts))
              => pm_out.val = C10_JsonValue(pm_obj.meta.v)

\* a vector child with a non-numeric text has been parsed to None
C10_Witness ==
    /\ pm_pc = "parsed"
    /\ pm_obj.meta # PyNone
    /\ pm_obj.meta.v \in BadVectorDocs
    /\ pm_out = Ok(PyNone)


(***************************************************************************)
(* C11: how parse_meta_string dispatches.  None, an empty and a             *)
(* whitespace-only string give None.  A string that, spaces stripped,       *)
(* starts with '<' and is a document with the root thruster gives one       *)
(* record, with the root thrusters a list of one record per child in        *)
(* document order.  Everything else gives the JSON value, or None where     *)
(* the text is no JSON.  The text of a leaf child becomes a boolean for     *)
(* true/false in any case, else a float when it holds a '.', else an int,   *)
(* else the string, and None when the child has no text.                    *)
(*                                                                          *)
(* As stated, a thruster or thrusters document always gives a record or a   *)
(* list.  As amended, it does so unless a vector child (sub-elements named  *)
(* x, y, z or r, g, b) holds a missing or non-numeric text: the conversion  *)
(* then fails, the JSON fallback is tried and the result is None.           *)
(***************************************************************************)
\* what each leaf text of the model stands for
C11_LeafTable ==
    {<<PyNone, PyNone>>,
     <<PyText(T_40_0), PyFloat(40000)>>,
     <<PyText(T_40), PyInt(40)>>,
     <<PyText(T_neg1), PyInt(-1)>>,
     <<PyText(T_0_5), PyFloat(500)>>,
     <<PyText(T_abc), PyText(T_abc)>>,
     <<PyText(T_1_2_3), PyText(T_1_2_3)>>,
     <<PyText(T_True), PyBool(TRUE)>>,
     <<PyText(TextFalse), PyBool(FALSE)>>}

\* the input is this document, bare or with spaces around it
C11_InputIs(doc) ==
    /\ pm_obj.meta # PyNone
    /\ pm_obj.meta.v \in {doc, <<Space>> \o doc \o <<Space>>}

C11_InputIn(S) == pm_obj.meta # PyNone /\ pm_obj.meta.v \in S

C11_Parsed == pm_pc \in {"parsed", "done"} /\ pm_baked = PyNone

\* the records of the children of a thrusters document, in document order
C11_FirstRecords == [d \in {<<>>, ThrusterDoc(LeafTokens("thrust_n", PyText(T_40_0)))} |->
    IF d = <<>> THEN <<>> ELSE <<PyDict(<< <<"thrust_n", PyFloat(40000)>> >>)>>]

C11_SecondRecords == [d \in {<<>>, ThrusterDoc(LeafTokens("name", PyText(T_abc)))} |->
    IF d = <<>> THEN <<>> ELSE <<PyDict(<< <<"name", PyText(T_abc)>> >>)>>]

\* the cases that do not turn on a failing conversion
C11_Common ==
    C11_Parsed =>
        /\ ~Raised(pm_out)
        /\ (pm_obj.meta = PyNone \/ C11_InputIn({<<>>, <<Space>>, <<Space, Space>>}))
              => pm_out.val = PyNone
        /\ \A e \in C11_LeafTable :
              C11_InputIs(ThrusterDoc(LeafTokens("thrust_n", e[1])))
                  => pm_out.val = PyDict(<< <<"thrust_n", e[2]>> >>)
        /\ C11_InputIs(ExampleDoc)
              => pm_out.val = PyDict(<< <<"thrust_n", PyFloat(40000)>>,
                                        <<"exportable", PyBool(TRUE)>> >>)
        /\ C11_InputIn(GoodVectorDocs \cup ListDocs)
              => pm_out.val.t = "dict" /\ Len(pm_out.val.v) = 1
        /\ \A a \in DOMAIN C11_FirstRecords, b \in DOMAIN C11_SecondRecords :
              C11_InputIs(<<Tok("open", "thrusters")>> \o a \o b \o <<Tok("close", "thrusters")>>)
                  => pm_out.val = PyList(C11_FirstRecords[a] \o C11_SecondRecords[b])
        /\ C11_InputIn(MalformedDocs \cup UnknownRootDocs \cup GarbageTexts
                          \cup Padded(MalformedDocs \cup UnknownRootDocs))
              => pm_out.val = PyNone
        /\ C11_InputIn(JsonTexts \cup Padded(JsonTexts))
              => pm_out.val = C10_JsonValue(pm_obj.meta.v)

C12_NoPartialOutput ==
    (pc = "done" /\ result = "CANCELLED" /\ report.level = "ERROR") => saved = {}

(***************************************************************************)
(* C13: the failure of one mesh export or of one texture save does not      *)
(* keep the other meshes and textures from being attempted.  Once the       *)
(* loops are over, every mesh has been handed to the exporter and every     *)
(* map of every material in use either was handed to the host to save or    *)
(* has its file in place (or there is no textures directory); a run ends    *)
(* only after the write of part.xml was attempted; and the mesh count of    *)
(* the summary is the number of meshes whose export succeeded.              *)
(***************************************************************************)
C13_MeshesSaved == {i \in DOMAIN mesh_export_info : mesh_export_info[i].glb_path \in saved}

C13_BestEffort ==
    /\ pc \in {"xml", "done"} =>
          /\ Len(mesh_export_info) = Len(mesh_objects)
          /\ \A i \in DOMAIN mesh_export_info : mesh_export_info[i].glb_path \in attempted
          /\ Len(material_infos) = Cardinality(MaterialsUsed(mesh_objects))
          /\ \A mat \in MaterialsUsed(mesh_objects) : \A role \in Materials[mat].maps :
                \/ ~Truthy(textures_dir)
                \/ TexturePath(mat, role) \in attempted
                \/ TexturePath(mat, role) \in DOMAIN files
    /\ pc = "done" => "part.xml" \in attempted
    /\ result # "RUNNING" => pc = "done"
    /\ (pc = "done" /\ result = "FINISHED") =>
          /\ report.level = "INFO"
          /\ report.meshes = Cardinality(C13_MeshesSaved)

\* the export of the first mesh failed, the second was exported, a texture
\* was saved, and the run finished reporting one mesh
C13_Witness ==
    /\ pc = "done"
    /\ result = "FINISHED"
    /\ Len(mesh_export_info) >= 2
    /\ mesh_export_info[1].glb_path \in attempted \ saved
    /\ mesh_export_info[2].glb_path \in saved
    /\ "Textures/Steel_Normal.png" \in saved
    /\ report.meshes = Len(mesh_export_info) - 1

(***************************************************************************)
(* C14: the composite export never overwrites an existing texture file.     *)
(* In every step, a texture file that exists before the step is not handed  *)
(* to the host to be saved or copied in that step and has the same content  *)
(* after it, also in a second run.                                          *)
(***************************************************************************)
C14_TexturePaths == {TexturePath(mat, role) : mat \in DOMAIN Materials, role \in MapRoles}

C14_StepKeepsTextures ==
    \A p \in DOMAIN files \cap C14_TexturePaths :
        /\ p \in DOMAIN files'
        /\ files'[p] = files[p]
        /\ p \notin attempted' \ attempted

C14_NoTextureOverwrite == [][C14_StepKeepsTextures]_vars

\* the material Steel went through the loop while its diffuse texture was in
\* place: the normal map was written next to it and the old file is as it was
C14_Witness ==
    /\ pc = "done"
    /\ "Textures/Steel_Diffuse.png" \in DOMAIN files
    /\ files["Textures/Steel_Diffuse.png"] = <<"png", "old">>
    /\ "Textures/Steel_Normal.png" \in saved
    /\ "Textures/Steel_Diffuse.png" \notin attempted


(***************************************************************************)
(* C15: part.xml holds the declaration line, a CRLF, and then the           *)
(* serialized document with every line end a CRLF: no LF without a CR       *)
(* before it and no doubled CR.  The Thrusters and the Engines builder      *)
(* return their text with the same line ends and no declaration line.       *)
(***************************************************************************)
\* a text whose line ends are all CRLF
C15_LineEnds == {"\n", "\r", "\r\n", "\r\r\n"}

C15_AllCRLF(text) == \A i \in DOMAIN text : text[i] \in C15_LineEnds => text[i] = "\r\n"

C15_CrlfWithDeclaration ==
    /\ (pc = "done" /\ result = "FINISHED") =>
          LET text == files["part.xml"]
          IN  /\ text[1] = XmlDeclaration
              /\ text[2] = "\r\n"
              /\ C15_AllCRLF(text)
              /\ \E i \in DOMAIN text : i > 2 /\ text[i] = "\r\n"
    /\ pc \in {"xml", "done"} =>
          /\ C15_AllCRLF(thrusters_list_to_xml_str(thrusters))
          /\ XmlDeclaration \notin Range(thrusters_list_to_xml_str(thrusters))
          /\ C15_AllCRLF(engines_list_to_xml_str(engines))
          /\ XmlDeclaration \notin Range(engines_list_to_xml_str(engines))


(***************************************************************************)
(* C16: the Location of a thruster record that holds a location and an      *)
(* offset is their elementwise sum, rounded once to the configured number   *)
(* of decimal places after the addition; the record RCS_1 at (1.0,2.0,3.0)  *)
(* with offset (0.1,0,0), rotation (0,0,0) and all-false control maps       *)
(* yields Id "RCS_1", Location 1.1/2.0/3.0, ExhaustDirection 1.0/0.0/0.0   *)
(* and ControlMap CSV "".                                                   *)
(***************************************************************************)
\* the children of e with the given tag
C16_Children(e, tag) == SelectSeq(e.kids, LAMBDA k : k.tag = tag)

\* the multiple of 10^-places nearest to x (thousandths)
C16_Nearest(x, places) ==
    CHOOSE r \in (x - 1000)..(x + 1000) :
        /\ r % (1000 \div Pow10(places)) = 0
        /\ 2 * Abs(r - x) < 1000 \div Pow10(places)

\* the spellings of the float r; a zero may carry a sign
C16_Texts(r) == IF r = 0 THEN {"0.0", "-0.0"} ELSE {Str(FloatToText(r))}

C16_IsVector(d, key) == key \in DOMAIN d /\ d[key].t = "list" /\ Len(d[key].v) = 3

C16_Axes == <<"X", "Y", "Z">>

C16_Example ==
    [name |-> "RCS_1", location |-> PyList(<<1000, 2000, 3000>>),
     fx_location |-> PyList(<<100, 0, 0>>), rotation |-> PyList(<<0, 0, 0>>),
     thrust_n |-> PyFloat(40000),
     control_map_translation |-> PyList(<<FALSE, FALSE, FALSE, FALSE, FALSE, FALSE>>),
     control_map_rotation |-> PyList(<<FALSE, FALSE, FALSE, FALSE, FALSE, FALSE>>)]

C16_ExampleElement(e) ==
    /\ Attr(e, "Id") = "RCS_1"
    /\ C16_Children(e, "Location")
          = <<Elem("Location", <<<<"X", "1.1">>, <<"Y", "2.0">>, <<"Z", "3.0">>>>, <<>>)>>
    /\ C16_Children(e, "ExhaustDirection")
          = <<Elem("ExhaustDirection", <<<<"X", "1.0">>, <<"Y", "0.0">>, <<"Z", "0.0">>>>, <<>>)>>
    /\ C16_Children(e, "ControlMap") = <<Elem("ControlMap", <<<<"CSV", "">>>>, <<>>)>>

C16_SumThenRound ==
    /\ ( /\ th_pc = "done"
         /\ C16_IsVector(th_data, "location")
         /\ C16_IsVector(th_data, "fx_location") )
       => /\ Len(C16_Children(th_elem, "Location")) = 1
          /\ \A i \in 1..3 :
                Attr(C16_Children(th_elem, "Location")[1], C16_Axes[i])
                    \in C16_Texts(C16_Nearest(th_data.location.v[i] + th_data.fx_location.v[i],
                                              th_places))
    /\ (th_pc = "done" /\ th_data = C16_Example /\ th_places = 3)
       => C16_ExampleElement(th_elem)

\* a sum whose rounding differs from the sum of the rounded operands has
\* been written with two decimal places
C16_Witness ==
    /\ th_pc = "done"
    /\ th_places = 2
    /\ C16_IsVector(th_data, "location")
    /\ C16_IsVector(th_data, "fx_location")
    /\ th_data.location.v = <<1004, -4, 4>>
    /\ th_data.fx_location.v = <<4, 4, -1004>>
    /\ Attr(C16_Children(th_elem, "Location")[1], "X") = "1.01"

\* the record of the example has been serialized as stated
C16_ExampleWitness ==
    th_pc = "done" /\ th_data = C16_Example /\ th_places = 3 /\ C16_ExampleElement(th_elem)

(***************************************************************************)
(* C17: the ExhaustDirection of a thruster or an engine does not depend on  *)
(* the roll angle rx: rotations that differ in rx only give the same        *)
(* direction, a rotation with ry = 0 and rz = 0 gives (1,0,0), and so does  *)
(* an absent or empty rotation.                                             *)
(***************************************************************************)
C17_Built == th_pc \in {"done", "engine_done"}

\* the element the builder that ran makes of the dict d
C17_Build(d) ==
    IF th_pc = "engine_done" THEN engine_dict_to_xml_element(d, th_places)
    ELSE thruster_dict_to_xml_element(d, th_places)

C17_Rolled(d, rx) == [d EXCEPT !.rotation = PyList(<<rx, d.rotation.v[2], d.rotation.v[3]>>)]

C17_Forward ==
    <<Elem("ExhaustDirection", <<<<"X", "1.0">>, <<"Y", "0.0">>, <<"Z", "0.0">>>>, <<>>)>>

C17_NoRotation(d) ==
    \/ "rotation" \notin DOMAIN d
    \/ d.rotation.t = "none"
    \/ d.rotation.t = "list" /\ d.rotation.v = <<>>

C17_RollInvariant ==
    /\ (C17_Built /\ C16_IsVector(th_data, "rotation"))
       => /\ \A rx \in Angles :
                C16_Children(C17_Build(C17_Rolled(th_data, rx)), "ExhaustDirection")
                    = C16_Children(th_elem, "ExhaustDirection")
          /\ (th_data.rotation.v[2] = 0 /\ th_data.rotation.v[3] = 0)
                => C16_Children(th_elem, "ExhaustDirection") = C17_Forward
    /\ (C17_Built /\ C17_NoRotation(th_data))
       => C16_Children(th_elem, "ExhaustDirection") = C17_Forward

\* an engine rolled by half a radian and not turned otherwise points forward
C17_Witness ==
    /\ th_pc = "engine_done"
    /\ C16_IsVector(th_data, "rotation")
    /\ th_data.rotation.v = <<500, 0, 0>>
    /\ C16_Children(th_elem, "ExhaustDirection") = C17_Forward

(***************************************************************************)
(* C18: the Thrust N of an engine is its thrust in kilonewtons times 1000   *)
(* (650.0 is written as "650000.0"), and its Location is the rounded world  *)
(* location, to which no effect offset is added.                            *)
(***************************************************************************)
\* the thrust of the record in kilonewtons, as a whole number of thousandths
C18_KiloNewtons(d) ==
    IF "thrust_kn" \notin DOMAIN d THEN 650000
    ELSE IF d.thrust_kn.t = "int" THEN d.thrust_kn.v * 1000
    ELSE d.thrust_kn.v

C18_EngineThrustAndLocation ==
    th_pc = "engine_done" =>
        /\ C16_Children(th_elem, "Thrust")
              = <<Elem("Thrust",
                       <<<<"N", Str(IntToText(C18_KiloNewtons(th_data)) \o <<".", "0">>)>>>>,
                       <<>>)>>
        /\ ("thrust_kn" \in DOMAIN th_data /\ th_data.thrust_kn = PyFloat(650000))
              => Attr(C16_Children(th_elem, "Thrust")[1], "N") = "650000.0"
        /\ C16_IsVector(th_data, "location")
              => /\ Len(C16_Children(th_elem, "Location")) = 1
                 /\ \A i \in 1..3 :
                       Attr(C16_Children(th_elem, "Location")[1], C16_Axes[i])
                           \in C16_Texts(C16_Nearest(th_data.location.v[i], th_places))

\* an engine of 650.0 kN at (1.004,-0.004,0.004) that also carries an effect
\* offset has been written with two decimal places
C18_Witness ==
    /\ th_pc = "engine_done"
    /\ "thrust_kn" \in DOMAIN th_data
    /\ th_data.thrust_kn = PyFloat(650000)
    /\ Attr(C16_Children(th_elem, "Thrust")[1], "N") = "650000.0"
    /\ C16_IsVector(th_data, "location")
    /\ th_data.location.v = <<1004, -4, 4>>
    /\ "fx_location" \in DOMAIN th_data
    /\ th_places = 2
    /\ Attr(C16_Children(th_elem, "Location")[1], "X") = "1.0"

(***************************************************************************)
(* C19: when the world location or the effect offset of a thruster is       *)
(* absent, the Location is built from the other one: a record without a     *)
(* location and with an offset gets a Location holding the rounded offset,  *)
(* a record with a location and without an offset gets the rounded          *)
(* location.                                                                *)
(***************************************************************************)
\* the key is missing or holds None
C19_Absent(d, key) == key \notin DOMAIN d \/ d[key].t = "none"

\* the element has one Location, which holds the rounded vector v
C19_LocationIs(e, v, places) ==
    /\ Len(C16_Children(e, "Location")) = 1
    /\ \A i \in 1..3 :
          Attr(C16_Children(e, "Location")[1], C16_Axes[i])
              \in C16_Texts(C16_Nearest(v[i], places))

C19_OtherOperandUsed ==
    th_pc = "done" =>
        /\ (C19_Absent(th_data, "location") /\ C16_IsVector(th_data, "fx_location"))
              => C19_LocationIs(th_elem, th_data.fx_location.v, th_places)
        /\ (C16_IsVector(th_data, "location") /\ C19_Absent(th_data, "fx_location"))
              => C19_LocationIs(th_elem, th_data.location.v, th_places)

(***************************************************************************)
(* utils._extract_material_maps.  A material has use_nodes and a node tree  *)
(* (or None); the tree has nodes and links.  A node has an id, a type, an   *)
(* image (or None) and input sockets; a link names the socket it ends in    *)
(* and the node it starts from.  An object of the host whose data is gone   *)
(* (valid = FALSE) raises when a field of it is read.                       *)
(***************************************************************************)
Image(name, valid) == [t |-> "image", name |-> name, valid |-> valid]
Socket(id, name) == [id |-> id, name |-> name]
Node(id, type, image, inputs) == [id |-> id, type |-> type, image |-> image, inputs |-> inputs]
Link(to_socket, from_node, valid) ==
    [to_socket |-> to_socket, from_node |-> from_node, valid |-> valid]
NodeTree(nodes, links, valid) == [t |-> "tree", nodes |-> nodes, links |-> links, valid |-> valid]
Material(use_nodes, node_tree) == [use_nodes |-> use_nodes, node_tree |-> node_tree]

\* key in text
Contains(text, key) ==
    \E i \in 1..(Len(text) - Len(key) + 1) : SubSeq(text, i, i + Len(key) - 1) = key

\* any(key in lower for key in keys)
AnyKeyIn(lower, keys) == \E key \in keys : Contains(lower, key)

DiffuseKeys == {<<"d","i","f","f","u","s","e">>, <<"a","l","b","e","d","o">>, <<"b","a","s","e","c","o","l","o","r">>, <<"b","a","s","e","_","c","o","l","o","r">>}
NormalKey == <<"n","o","r","m","a","l">>
PackedKeys == {<<"r","o","u","g","h">>, <<"m","e","t","a","l">>, <<"a","o">>, <<"o","r","m">>, <<"r","m","a">>}

\* getattr(inp, 'name', '').lower() of the socket names of the model
LowerName(name) ==
    CASE name = "Base Color" -> "base color"
      [] name = "Color" -> "color"
      [] OTHER -> name

\* mutant: only the first link is looked at
RECURSIVE ScanLinks_FirstLink(_, _, _, _)
ScanLinks_FirstLink(links, k, inp, node) ==
    IF k > Len(links) \/ k > 1 THEN "none"
    ELSE IF ~links[k].valid THEN "raise"
    ELSE IF links[k].to_socket = inp.id /\ links[k].from_node = node.id THEN "found"
    ELSE ScanLinks_FirstLink(links, k + 1, inp, node)

\* the loop over the links for one socket and one image node: the first link
\* that lacks its fields raises, the first that joins the two is found
RECURSIVE ScanLinks(_, _, _, _)
ScanLinks(links, k, inp, node) ==
    IF k > Len(links) THEN "none"
    ELSE IF ~links[k].valid THEN "raise"
    ELSE IF links[k].to_socket = inp.id /\ links[k].from_node = node.id THEN "found"
    ELSE ScanLinks(links, k + 1, inp, node)

Search(found, raised) == [found |-> found, raised |-> raised]

\* the loop over the inputs of one shader node
RECURSIVE ScanInputs(_, _, _, _, _, _)
ScanInputs(inputs, j, names, node, links, found) ==
    IF j > Len(inputs) THEN Search(found, FALSE)
    ELSE IF LowerName(inputs[j].name) \notin names
         THEN ScanInputs(inputs, j + 1, names, node, links, found)
    ELSE IF ScanLinks(links, 1, inputs[j], node) = "raise" THEN Search(found, TRUE)
    ELSE ScanInputs(inputs, j + 1, names, node, links,
                    found \/ ScanLinks(links, 1, inputs[j], node) = "found")

\* the next shader node is tried when this one neither raised nor found
NextShader(here, rest) == IF here.raised \/ here.found THEN here ELSE rest

\* the loop over the shader nodes, inside its try block
RECURSIVE ScanShaders(_, _, _, _, _)
ScanShaders(shaders, k, names, node, links) ==
    IF k > Len(shaders) THEN Search(FALSE, FALSE)
    ELSE NextShader(ScanInputs(shaders[k].inputs, 1, names, node, links, FALSE),
                    ScanShaders(shaders, k + 1, names, node, links))

\* result and whether an exception was raised so far
Maps(res, failed) == [result |-> res, failed |-> failed]

\* result[role] = img
Assign(res, role, img) == (role :> img) @@ res

\* mutant: a later image whose name fits takes the role over
ByName_LastWins(st, role, named, img) ==
    IF named THEN Maps(Assign(st.result, role, img), st.failed)
    ELSE st

\* a role given by the name of the image
ByName(st, role, named, img) ==
    IF role \notin DOMAIN st.result /\ named THEN Maps(Assign(st.result, role, img), st.failed)
    ELSE st

AfterSearch(st, role, img, search) ==
    Maps(IF search.found THEN Assign(st.result, role, img) ELSE st.result,
         st.failed \/ search.raised)

\* a role given by a link into a shader node; an exception ends the search
ByLink(st, role, img, shaders, names, node, links) ==
    IF role \in DOMAIN st.result THEN st
    ELSE AfterSearch(st, role, img, ScanShaders(shaders, 1, names, node, links))

\* [n for n in nodes if getattr(n, 'type', '') == type]
NodesOfType(nodes, type) == SelectSeq(nodes, LAMBDA n : n.type = type)

\* the body of the loop for an image node whose image has the name lower
ClassifyImage(st, node, lower, nodes, links) ==
    ByName(
        ByLink(
            ByName(
                ByLink(
                    ByName(st, "diffuse", AnyKeyIn(lower, DiffuseKeys), node.image),
                    "diffuse", node.image, NodesOfType(nodes, "BSDF_PRINCIPLED"),
                    {"base color", "basecolor"}, node, links),
                "normal", Contains(lower, NormalKey), node.image),
            "normal", node.image, NodesOfType(nodes, "NORMAL_MAP"),
            {"color", "image"}, node, links),
        "roughmetaao", AnyKeyIn(lower, PackedKeys), node.image)

\* the node is passed over
Skipped(node) == node.type # "TEX_IMAGE" \/ node.image.t = "none"

\* reading the name of the image raises
NameRaises(node) == ~Skipped(node) /\ ~node.image.valid

\* one pass of the loop "for node in nodes" that does not raise
ClassifyNode(st, node, nodes, links) ==
    IF Skipped(node) THEN st
    ELSE ClassifyImage(st, node, Lower(node.image.name), nodes, links)

\* the materials of the model
ImageNames == {<<"A","l","b","e","d","o">>, <<"H","u","l","l","_","N","o","r","m","a","l">>, <<"o","r","m">>, <<"x">>}

ImageValues ==
    {PyNone} \cup {Image(name, valid) : name \in ImageNames, valid \in BOOLEAN}

GraphNodes(imgA, imgB) ==
    <<Node("a", "TEX_IMAGE", imgA, <<>>),
      Node("b", "TEX_IMAGE", imgB, <<>>),
      Node("p", "BSDF_PRINCIPLED", PyNone,
           <<Socket("p.base", "Base Color"), Socket("p.metal", "Metallic")>>),
      Node("n", "NORMAL_MAP", PyNone, <<Socket("n.color", "Color")>>)>>

GraphLinks ==
    { <<>>,
      <<Link("p.base", "b", TRUE)>>,
      <<Link("n.color", "a", TRUE), Link("p.base", "b", TRUE)>>,
      <<Link("none", "none", FALSE)>>,
      <<Link("n.color", "b", TRUE), Link("none", "none", FALSE)>>,
      <<Link("none", "none", FALSE), Link("p.base", "a", TRUE)>> }

Graphs ==
    {NodeTree(GraphNodes(imgA, imgB), links, TRUE) :
        imgA \in ImageValues, imgB \in ImageValues, links \in GraphLinks}

MapMaterials ==
    {Material(TRUE, tree) : tree \in Graphs}
    \cup {Material(FALSE, NodeTree(GraphNodes(PyNone, PyNone), <<>>, TRUE)),
          Material(TRUE, PyNone),
          Material(TRUE, NodeTree(<<>>, <<>>, FALSE))}

MapsInit ==
    /\ mm_pc = "start"
    /\ mm_mat \in MapMaterials
    /\ mm_idx = 0
    /\ mm_result = <<>>
    /\ mm_failed = FALSE
    /\ mm_ret = PyNone
    /\ SanIdle
    /\ ThIdle
    /\ ExIdle
    /\ MetaIdle

\* the statements before the loop: the early returns, and the lists of the
\* nodes and the links, which raise when the tree is gone
EnterGraph ==
    /\ mm_pc = "start"
    /\ IF ~mm_mat.use_nodes \/ mm_mat.node_tree.t = "none"
       THEN mm_pc' = "done" /\ mm_ret' = mm_result /\ UNCHANGED mm_failed
       ELSE IF ~mm_mat.node_tree.valid
       THEN mm_pc' = "done" /\ mm_ret' = mm_result /\ mm_failed' = TRUE
       ELSE mm_pc' = "nodes" /\ UNCHANGED <<mm_ret, mm_failed>>
    /\ mm_idx' = 1
    /\ UNCHANGED <<mm_mat, mm_result, san_vars, th_vars, ex_vars, pm_vars>>

\* one pass of the loop over the nodes; an exception that leaves the pass is
\* caught by the handler of the function, which returns result
InspectNode ==
    /\ mm_pc = "nodes"
    /\ mm_idx <= Len(mm_mat.node_tree.nodes)
    /\ IF NameRaises(mm_mat.node_tree.nodes[mm_idx])
       THEN /\ mm_pc' = "done"
            /\ mm_failed' = TRUE
            /\ mm_ret' = mm_result
            /\ UNCHANGED <<mm_idx, mm_result>>
       ELSE /\ mm_result' = ClassifyNode(Maps(mm_result, mm_failed),
                                         mm_mat.node_tree.nodes[mm_idx],
                                         mm_mat.node_tree.nodes,
                                         mm_mat.node_tree.links).result
            /\ mm_failed' = ClassifyNode(Maps(mm_result, mm_failed),
                                         mm_mat.node_tree.nodes[mm_idx],
                                         mm_mat.node_tree.nodes,
                                         mm_mat.node_tree.links).failed
            /\ mm_idx' = mm_idx + 1
            /\ UNCHANGED <<mm_pc, mm_ret>>
    /\ UNCHANGED <<mm_mat, san_vars, th_vars, ex_vars, pm_vars>>

\* return result, after the loop
ReturnMaps ==
    /\ mm_pc = "nodes"
    /\ mm_idx > Len(mm_mat.node_tree.nodes)
    /\ mm_pc' = "done"
    /\ mm_ret' = mm_result
    /\ UNCHANGED <<mm_mat, mm_idx, mm_result, mm_failed, san_vars, th_vars, ex_vars, pm_vars>>

MapsNext == EnterGraph \/ InspectNode \/ ReturnMaps

SpecMaps == MapsInit /\ [][MapsNext]_vars

(***************************************************************************)
(* C20: whenever the inspection of the node graph of a material fails at    *)
(* any point, also after a role has been assigned, the call returns an      *)
(* empty mapping and does not raise.                                        *)
(***************************************************************************)
C20_EmptyOnFailure ==
    (mm_pc = "done" /\ mm_failed) => (mm_ret # PyNone /\ DOMAIN mm_ret = {})

(***************************************************************************)
(* C21: each role holds at most one image and the first match wins: the     *)
(* image of a role is that of the first image node, in the order of the     *)
(* loop, that meets the criterion of the role (a keyword in the name, or    *)
(* for diffuse a link into a Base Color input of a principled shader, or    *)
(* for normal a link into a color or image input of a Normal Map node),     *)
(* and no later node changes it.                                            *)
(***************************************************************************)
C21_Roles == {"diffuse", "normal", "roughmetaao"}

C21_Keys(role) ==
    CASE role = "diffuse" -> DiffuseKeys
      [] role = "normal" -> {NormalKey}
      [] role = "roughmetaao" -> PackedKeys

C21_ShaderType(role) == IF role = "diffuse" THEN "BSDF_PRINCIPLED" ELSE "NORMAL_MAP"

C21_InputNames(role) ==
    IF role = "diffuse" THEN {"base color", "basecolor"} ELSE {"color", "image"}

\* a link of the tree leads from the node into an input of the role
C21_Linked(tree, node, role) ==
    /\ role # "roughmetaao"
    /\ \E s \in Range(tree.nodes) : \E inp \in Range(s.inputs) : \E l \in Range(tree.links) :
          /\ s.type = C21_ShaderType(role)
          /\ LowerName(inp.name) \in C21_InputNames(role)
          /\ l.to_socket = inp.id
          /\ l.from_node = node.id

C21_Qualifies(tree, node, role) ==
    /\ node.type = "TEX_IMAGE"
    /\ node.image.t = "image"
    /\ \/ AnyKeyIn(Lower(node.image.name), C21_Keys(role))
       \/ C21_Linked(tree, node, role)

\* the positions before `upto` whose node qualifies for the role
C21_Candidates(tree, role, upto) ==
    {k \in 1..(upto - 1) : C21_Qualifies(tree, tree.nodes[k], role)}

C21_FirstOf(S) == CHOOSE k \in S : \A j \in S : k <= j

C21_FirstMatchWins ==
    (mm_pc \in {"nodes", "done"} /\ ~mm_failed) =>
        \A role \in C21_Roles :
            IF C21_Candidates(mm_mat.node_tree, role, mm_idx) = {}
            THEN role \notin DOMAIN mm_result
            ELSE /\ role \in DOMAIN mm_result
                 /\ mm_result[role]
                      = mm_mat.node_tree.nodes[
                            C21_FirstOf(C21_Candidates(mm_mat.node_tree, role, mm_idx))].image

\* two image nodes qualify for normal, the first by its link and the second
\* by its name, and the call returned the image of the first
C21_Witness ==
    /\ mm_pc = "done"
    /\ ~mm_failed
    /\ mm_mat.use_nodes
    /\ mm_mat.node_tree.t = "tree"
    /\ mm_mat.node_tree.valid
    /\ Cardinality(C21_Candidates(mm_mat.node_tree, "normal", 5)) = 2
    /\ mm_mat.node_tree.nodes[1].image # mm_mat.node_tree.nodes[2].image
    /\ ~AnyKeyIn(Lower(mm_mat.node_tree.nodes[1].image.name), {NormalKey})
    /\ "normal" \in DOMAIN mm_ret
    /\ mm_ret["normal"] = mm_mat.node_tree.nodes[1].image

(***************************************************************************)
(* C22: for a well-formed graph in which at most one image node qualifies   *)
(* for each role, the mapping returned is the same for every order of the   *)
(* nodes and of the links.                                                  *)
(***************************************************************************)
C22_WellFormed(mat) ==
    /\ mat.use_nodes
    /\ mat.node_tree.t = "tree"
    /\ mat.node_tree.valid
    /\ \A l \in Range(mat.node_tree.links) : l.valid
    /\ \A n \in Range(mat.node_tree.nodes) : n.image.t = "image" => n.image.valid

C22_OnePerRole(tree) ==
    \A role \in C21_Roles :
        Cardinality(C21_Candidates(tree, role, Len(tree.nodes) + 1)) <= 1

C22_Orders(n) == {p \in [1..n -> 1..n] : \A i \in 1..n : \A j \in 1..n : p[i] = p[j] => i = j}

\* the tree traversed in another order
C22_Reordered(tree, p, q) ==
    NodeTree([i \in DOMAIN tree.nodes |-> tree.nodes[p[i]]],
             [i \in DOMAIN tree.links |-> tree.links[q[i]]], TRUE)

\* the loop over the nodes of a well-formed tree, from node k on
RECURSIVE C22_Loop(_, _, _)
C22_Loop(tree, k, st) ==
    IF k > Len(tree.nodes) THEN st.result
    ELSE C22_Loop(tree, k + 1, ClassifyNode(st, tree.nodes[k], tree.nodes, tree.links))

C22_OrderIndependent ==
    (mm_pc = "done" /\ C22_WellFormed(mm_mat) /\ C22_OnePerRole(mm_mat.node_tree)) =>
        \A p \in C22_Orders(Len(mm_mat.node_tree.nodes)) :
            \A q \in C22_Orders(Len(mm_mat.node_tree.links)) :
                C22_Loop(C22_Reordered(mm_mat.node_tree, p, q), 1, Maps(<<>>, FALSE)) = mm_ret

\* a graph with two links, in which one node is the normal image and the
\* other the diffuse image, has been classified
C22_Witness ==
    /\ mm_pc = "done"
    /\ C22_WellFormed(mm_mat)
    /\ C22_OnePerRole(mm_mat.node_tree)
    /\ Len(mm_mat.node_tree.links) = 2
    /\ DOMAIN mm_ret = {"diffuse", "normal"}
    /\ mm_ret["diffuse"] # mm_ret["normal"]

(***************************************************************************)
(* C23: in _element_to_dict a child with sub-elements becomes a list of     *)
(* floats only when its sub-tags are exactly r, g, b or exactly x, y, z;    *)
(* for any other set of sub-tags, a proper subset such as x and y           *)
(* included, it becomes a generic list in which the type of each text is    *)
(* inferred on its own, so that the text of an integer stays an int.        *)
(***************************************************************************)
\* what float(t) gives for the numeric texts of the model
C23_FloatTable ==
    (PyText(T_40_0) :> PyFloat(40000)) @@ (PyText(T_40) :> PyFloat(40000))
        @@ (PyText(T_neg1) :> PyFloat(-1000)) @@ (PyText(T_0_5) :> PyFloat(500))

\* what each text stands for when its type is inferred on its own
C23_ItemTable ==
    (PyNone :> PyNone) @@ (PyText(T_40_0) :> PyFloat(40000)) @@ (PyText(T_40) :> PyInt(40))
        @@ (PyText(T_neg1) :> PyInt(-1)) @@ (PyText(T_0_5) :> PyFloat(500))
        @@ (PyText(T_abc) :> PyText(T_abc)) @@ (PyText(T_1_2_3) :> PyText(T_1_2_3))

\* the children with sub-elements of the model: a name, the sub-tags and the
\* texts, every text of a child with axis or colour tags being a number
C23_Children ==
    UNION {{"location"} \X VectorTagsOf(Len(ts)) \X {ts} : ts \in TextsOver(NumericTexts)}
    \cup ({"location"} \X {<<"x", "y", "z">>, <<"r", "g", "b">>} \X FullVectorTexts)
    \cup UNION {{"control_map_translation"} \X {ItemTags(Len(ts))} \X {ts} :
                    ts \in TextsOver(ItemTexts)}

C23_IsVector(tags) == Range(tags) \in {{"r", "g", "b"}, {"x", "y", "z"}}

C23_Expected(tags, texts) ==
    IF C23_IsVector(tags) THEN PyList([j \in DOMAIN texts |-> C23_FloatTable[texts[j]]])
    ELSE PyList([j \in DOMAIN texts |-> C23_ItemTable[texts[j]]])

C23_FloatsOnlyForFullVectors ==
    C11_Parsed =>
        \A c \in C23_Children :
            C11_InputIs(ChildDoc(c[1], c[2], c[3]))
                => pm_out = Ok(PyDict(<< <<c[1], C23_Expected(c[2], c[3])>> >>))

(***************************************************************************)
(* C24: a PbrMaterial element has a Diffuse, Normal or RoughMetaAo child    *)
(* exactly for the roles in the map of its material, in this order, and     *)
(* only when the Textures directory exists; each child has the Path         *)
(* Textures/<sanitized material name>_<Role>.png and the Category Vessel;   *)
(* a material with an empty map gets a PbrMaterial without children.        *)
(***************************************************************************)
C24_Tags == <<"Diffuse", "Normal", "RoughMetaAo">>

C24_RoleOf(tag) ==
    CASE tag = "Diffuse" -> "diffuse" [] tag = "Normal" -> "normal"
      [] tag = "RoughMetaAo" -> "roughmetaao"

\* the tags a material is to have children for, in the fixed order
C24_TagsFor(mat, dir_exists) ==
    SelectSeq(C24_Tags, LAMBDA tag : dir_exists /\ C24_RoleOf(tag) \in Materials[mat].maps)

C24_Child(mat, tag) ==
    Elem(tag,
         <<<<"Path", "Textures/" \o Str(sanitize_filename(Materials[mat].name))
                                \o "_" \o tag \o ".png">>,
           <<"Category", "Vessel">>>>,
         <<>>)

C24_Written == pc = "done" /\ result = "FINISHED"

C24_PbrMaterials == SelectSeq(root.kids, LAMBDA k : k.tag = "PbrMaterial")

C24_TextureChildren ==
    C24_Written =>
        /\ Len(C24_PbrMaterials) = Len(material_infos)
        /\ \A i \in DOMAIN material_infos :
              C24_PbrMaterials[i].kids
                  = [j \in DOMAIN C24_TagsFor(material_infos[i].mat, textures_dir # PyNone) |->
                        C24_Child(material_infos[i].mat,
                                  C24_TagsFor(material_infos[i].mat, textures_dir # PyNone)[j])]

\* a document holds a material with two texture children and one with none
C24_Witness ==
    /\ C24_Written
    /\ textures_dir # PyNone
    /\ \E i \in DOMAIN C24_PbrMaterials : Tags(C24_PbrMaterials[i].kids) = <<"Diffuse", "Normal">>
    /\ \E i \in DOMAIN C24_PbrMaterials : C24_PbrMaterials[i].kids = <<>>

(***************************************************************************)
(* C25: in a written document every Mesh Id inside a SubPartModel is the    *)
(* Id of a MeshFile under the root and every Material Id inside a           *)
(* SubPartModel is the Id of a PbrMaterial under the root, whatever the     *)
(* scene, a material with an empty name included.                           *)
(***************************************************************************)
\* the Ids of the children of e that have the tag
C25_Ids(e, tag) == {Attr(e.kids[i], "Id") : i \in {j \in DOMAIN e.kids : e.kids[j].tag = tag}}

\* the SubPartModel elements of the document
C25_Models ==
    UNION {{sp.kids[j] : j \in {k \in DOMAIN sp.kids : sp.kids[k].tag = "SubPartModel"}} :
            sp \in UNION {{part.kids[j] : j \in {k \in DOMAIN part.kids :
                                                    part.kids[k].tag = "SubPart"}} :
                              part \in {root.kids[j] : j \in {k \in DOMAIN root.kids :
                                                    root.kids[k].tag = "Part"}}}}

C25_ReferencesResolve ==
    C24_Written =>
        \A model \in C25_Models :
            /\ C25_Ids(model, "Mesh") \subseteq C25_Ids(root, "MeshFile")
            /\ C25_Ids(model, "Material") \subseteq C25_Ids(root, "PbrMaterial")

(***************************************************************************)
(* C26: in a written document the Path of every texture child of a         *)
(* PbrMaterial names the file the loop over the materials used as the save *)
(* destination for that material and role, whatever the material's name,   *)
(* the empty name included.                                                *)
(***************************************************************************)
C26_PathsNameSavedFiles ==
    C24_Written =>
        \A i \in DOMAIN material_infos :
            \A j \in DOMAIN C24_PbrMaterials[i].kids :
                Attr(C24_PbrMaterials[i].kids[j], "Path")
                    = TexturePath(material_infos[i].mat,
                                  C24_RoleOf(C24_PbrMaterials[i].kids[j].tag))

(***************************************************************************)
(* C27: every MeshFile element of a written document refers to a mesh file *)
(* this run exported successfully, at the relative path the file was       *)
(* written to: no MeshFile for an export that failed, and the Path is the  *)
(* place of the file also when the Meshes directory could not be created.  *)
(***************************************************************************)
C27_MeshFiles == {root.kids[j] : j \in {k \in DOMAIN root.kids : root.kids[k].tag = "MeshFile"}}

\* the paths, relative to the target directory, of the meshes this run wrote
C27_Exported == {mesh_export_info[i].glb_path : i \in DOMAIN mesh_export_info} \cap saved

C27_MeshFilesExported ==
    C24_Written => \A e \in C27_MeshFiles : Attr(e, "Path") \in C27_Exported

(***************************************************************************)
(* C28: distinct materials get distinct PbrMaterial Ids and distinct       *)
(* texture file paths: two materials of one export, also two whose names   *)
(* sanitize to the same text, never share an Id or a texture file.         *)
(***************************************************************************)
\* the save destinations of the maps of the i-th material of the loop
C28_TextureFiles(i) ==
    {TexturePath(material_infos[i].mat, role) : role \in material_infos[i].maps}

C28_MaterialsKeptApart ==
    C24_Written =>
        \A i, j \in DOMAIN material_infos :
            i # j => /\ Attr(C24_PbrMaterials[i], "Id") # Attr(C24_PbrMaterials[j], "Id")
                     /\ C28_TextureFiles(i) \cap C28_TextureFiles(j) = {}

(***************************************************************************)
(* C29: a thruster object whose exportable flag is false never produces a  *)
(* Thruster element, neither in part.xml nor in the _meta.xml of the GLB   *)
(* export with metadata.  thrusters_list_to_xml_str writes one Thruster    *)
(* element for every entry of the list it is given, so on the side of      *)
(* _meta.xml the object must contribute no entry to that list.             *)
(***************************************************************************)
C29_NotExportable ==
    /\ pm_obj.thruster_props # PyNone
    /\ pm_obj.thruster_props.exportable = PyBool(FALSE)

C29_NoElementWhenNotExportable ==
    (pm_pc = "done" /\ C29_NotExportable /\ ~Raised(pm_list)) => pm_list.val = <<>>

(***************************************************************************)
(* C30: the export leaves the selection of the host as it found it: once   *)
(* execute has returned, FINISHED or CANCELLED after the selection was     *)
(* changed, the selected objects and the active object are those of before *)
(* the call, also when no object was active before.                        *)
(***************************************************************************)
C30_SelectionRestored ==
    pc = "done" => selected = prev_selected /\ active = prev_active

====
